---- MODULE Spec2Model ----
(***************************************************************************)
(* Resilience layer of the Claude Programming Agent.                       *)
(*   src/src/utils/graceful_degradation.py: CircuitBreaker, the            *)
(*     GracefulDegradation manager and the with_graceful_degradation       *)
(*     wrapper.  Spec runs every manager operation as one action;          *)
(*     SpecFlight splits call_service where the breaker's lock is          *)
(*     released; SpecWrap adds the wrappers.                               *)
(*   src/src/utils/error_handler.py: ErrorCollector (SpecCollector).       *)
(*   src/src/utils/health_monitor.py: the sampler threads of HealthMonitor *)
(*     (SpecMonitor, SpecMonitorFair), _determine_health_status            *)
(*     (SpecStatus) and record_api_call (SpecApi).                         *)
(***************************************************************************)
EXTENDS Integers, Sequences, FiniteSets, TLC

VARIABLES
    services,           \* GracefulDegradation.services: name -> CircuitBreaker
    fallback_handlers,  \* GracefulDegradation.fallback_handlers: name -> callable
    now,                \* the value time.time() returns
    last,               \* what the last completed operation did and gave back
    fails,              \* history: failing invocations of the operation in a row, per breaker
    calls,              \* per thread: the manager operation the thread is inside
    lock,               \* GracefulDegradation.lock: the thread that holds it, or "free"
    breaker_lock,       \* CircuitBreaker.lock of each registered breaker: its holder, or "free"
    marked,             \* history: mark_service_unavailable returned; no probe, success or register_service since
    wrapped,            \* the call of a with_graceful_degradation wrapper that just ended
    collector,          \* an ErrorCollector: max_errors, errors, error_counts
    added,              \* history: the errors added to the collector since the last clear
    summary,            \* what get_error_summary just returned
    cleared,            \* history: clear_errors has discarded recorded errors
    monitor,            \* a HealthMonitor: is_running, stop_event, monitor_thread, health_history
    loops,              \* the Thread objects start_monitoring created: where each is
    callers,            \* the threads that call start_monitoring / stop_monitoring: where each is
    reading,            \* the arguments of a call of _determine_health_status
    verdict,            \* what that call returned
    alerts,             \* the lines _check_alerts logged for the sample built from them
    api_metrics,        \* HealthMonitor.api_metrics: service -> APIMetrics
    recorded,           \* history: the response times recorded per service
    monitor_collector,  \* HealthMonitor.error_collector, the monitor's own ErrorCollector
    agent_collector,    \* ClaudeProgrammingAgent.error_collector
    rate,               \* what _calculate_error_rate just returned
    initialized,        \* GracefulDegradation.initialized
    retry,              \* a call of a callable decorated with retry_on_failure: its loop
    recorders,          \* per thread: where the thread is inside record_api_call
    stack               \* per thread: the manager operations it is inside, innermost last

\* The manager's state, and the state of everything beyond the manager.
managerVars == <<services, fallback_handlers, now, last, fails>>
collectorVars == <<collector, added, summary, cleared>>
monitorVars == <<monitor, loops, callers>>
statusVars == <<reading, verdict, alerts>>
apiVars == <<api_metrics, recorded>>
rateVars == <<monitor_collector, agent_collector, rate>>
lockVars == <<lock, breaker_lock, marked>>
beyondManager == <<calls, wrapped, collectorVars, monitorVars, statusVars, apiVars, rateVars, lockVars, initialized, retry, recorders, stack>>
\* Everything beyond the manager and the calls in flight.
beyondFlight == <<wrapped, collectorVars, monitorVars, statusVars, apiVars, rateVars, lockVars, initialized, retry, recorders, stack>>
\* Everything beyond the manager and its wrappers.
beyondWrapper == <<calls, collectorVars, monitorVars, statusVars, apiVars, rateVars, lockVars, initialized, retry, recorders, stack>>
\* Everything beyond the error collector.
beyondCollector == <<managerVars, calls, wrapped, monitorVars, statusVars, apiVars, rateVars, lockVars, initialized, retry, recorders, stack>>
\* Everything beyond the health monitor's sampler.
beyondMonitor == <<managerVars, calls, wrapped, collectorVars, statusVars, apiVars, rateVars, lockVars, initialized, retry, recorders, stack>>
\* Everything beyond a call of _determine_health_status.
beyondStatus == <<managerVars, calls, wrapped, collectorVars, monitorVars, apiVars, rateVars, lockVars, initialized, retry, recorders, stack>>
\* Everything beyond the API metrics.
beyondApi == <<managerVars, calls, wrapped, collectorVars, monitorVars, statusVars, rateVars, lockVars, initialized, retry, recorders, stack>>
\* Everything beyond the error rate: the collectors and the API metrics it is computed from.
beyondRate == <<managerVars, calls, wrapped, monitorVars, statusVars, lockVars, initialized, retry, recorders, stack>>
\* Everything beyond the manager, the threads inside it and the locks.
beyondRace == <<wrapped, collectorVars, monitorVars, statusVars, apiVars, rateVars, initialized, retry, recorders, stack>>

vars == <<services, fallback_handlers, now, last, fails, calls, wrapped,
          collector, added, summary, cleared, monitor, loops, callers,
          reading, verdict, alerts, api_metrics, recorded,
          monitor_collector, agent_collector, rate, lock, breaker_lock, marked,
          initialized, retry, recorders, stack>>

\* ------------------------------------------------------------------ bounds
\* Largest max_failures a registered ServiceConfig carries.
MaxFailuresBound == 3
\* Largest recovery_time (seconds) an explicitly registered ServiceConfig carries.
MaxRecoveryBound == 2
\* Last value of the clock (seconds).
MaxTime == 4
\* Largest max_errors an ErrorCollector is built with.
MaxErrorsBound == 11
\* Most errors added to a collector between two clears.
MaxAdds == 12
\* Most Thread objects start_monitoring creates.
MaxLoops == 2
\* Most samples the monitoring loops take.
MaxSamples == 2
\* Most record_api_call invocations.
MaxApiCalls == 4
\* Most errors the application records in one collector before a sample.
MaxLogged == 2
\* Most samples taken once the history is one short of max_history.
MaxFurther == 3
\* Largest max_attempts retry_on_failure is given.
MaxAttemptsBound == 3
\* Most manager operations the threads are inside at once, all threads
\* together (an operation or a fallback may call into the manager again).
MaxFrames == 3

\* --------------------------------------------------------------- constants
DefaultMaxFailures == 3
DefaultFailureWindow == 300
DefaultRecoveryTime == 60
\* ErrorCollector(max_errors = 1000)
DefaultMaxErrors == 1000
\* get_error_summary: self.errors[-10:]
RecentCount == 10
\* HealthMonitor.max_history
MaxHistory == 100
\* HealthMonitor.thresholds
CpuWarning == 70
CpuCritical == 90
MemoryWarning == 80
MemoryCritical == 95
DiskWarning == 85
DiskCritical == 95
ErrorRateWarning == 5
ErrorRateCritical == 15
ResponseTimeWarning == 5
ResponseTimeCritical == 10
\* The error_rate of the sample collect_metrics builds when a source fails.
FailedErrorRate == 100

\* The service names callers use; Spec drives one of them through every
\* operation of the manager.
Names == {"llm", "db"}
FallbackIds == {"F", "G"}
\* The argument tuples (*args, **kwargs) callers pass.
Args == {"args1", "args2"}
\* The exception classes an operation can raise: any Exception, which includes
\* the module's own ServiceUnavailableError (e.g. from a nested call_service).
OperationErrors == {"OperationError", "ServiceUnavailableError"}

\* ServiceStatus
HEALTHY == "healthy"
DEGRADED == "degraded"
FAILED == "failed"
RECOVERING == "recovering"
ServiceStatus == {HEALTHY, DEGRADED, FAILED, RECOVERING}

\* ------------------------------------------------------------ data classes
ServiceConfig(name, max_failures, failure_window, recovery_time, fallback_enabled) ==
    [name |-> name, max_failures |-> max_failures, failure_window |-> failure_window,
     recovery_time |-> recovery_time, fallback_enabled |-> fallback_enabled]

\* Mutant: the lazy paths build the config setup_default_services gives "slack".
DefaultConfig_SlackValues(name) ==
    ServiceConfig(name, 5, 180, 30, TRUE)

\* The config mark_service_unavailable and is_service_available build for an
\* unknown name.
DefaultConfig(name) ==
    ServiceConfig(name, DefaultMaxFailures, DefaultFailureWindow, DefaultRecoveryTime, TRUE)

\* The configs a caller registers explicitly.
Configs(name) ==
    {ServiceConfig(name, m, DefaultFailureWindow, r, fe) :
        m \in 1..MaxFailuresBound, r \in 1..MaxRecoveryBound, fe \in BOOLEAN}

\* CircuitBreaker.__init__
NewCircuitBreaker(config) ==
    [config |-> config, failure_count |-> 0, last_failure_time |-> 0, status |-> HEALTHY]

\* ------------------------------------------------- callables and outcomes
\* An operation is a callable with its arguments; raises = "none" when it returns.
Operations == [raises : {"none"} \cup OperationErrors, args : Args]

Returned(v) == [kind |-> "returned", value |-> v]
Raised(e) == [kind |-> "raised", value |-> e]
NoOutcome == [kind |-> "none", value |-> [none |-> TRUE]]

\* What func(*args, **kwargs) gives.
Invoke(op) ==
    IF op.raises = "none"
    THEN Returned([by |-> "operation", args |-> op.args])
    ELSE Raised([exc |-> op.raises, by |-> "operation", args |-> op.args])

\* What the fallback handler f gives when called with the same arguments.
InvokeFallback(f, fbRaises, args) ==
    IF fbRaises
    THEN Raised([exc |-> "FallbackError", by |-> f, args |-> args])
    ELSE Returned([by |-> f, args |-> args])

ServiceUnavailable(name) ==
    Raised([exc |-> "ServiceUnavailableError", by |-> "breaker", args |-> "none", name |-> name])

\* --------------------------------------------------------- CircuitBreaker
\* Mutant: the subtraction of the recovery check is written the other way round.
RecoveryElapsed_Reversed(b, t) == b.last_failure_time - t > b.config.recovery_time

\* The recovery check at the head of call: a FAILED breaker may be tried again.
RecoveryElapsed(b, t) == t - b.last_failure_time > b.config.recovery_time

\* Mutant: the threshold comparison is strict.
StatusAfterFailure_Strict(failure_count, max_failures) ==
    IF failure_count > max_failures THEN FAILED ELSE DEGRADED

\* The status after a failure is counted.
StatusAfterFailure(failure_count, max_failures) ==
    IF failure_count >= max_failures THEN FAILED ELSE DEGRADED

\* Mutant: a success restores the status and keeps the count.
OnSuccess_KeepsCount(b) == [b EXCEPT !.status = HEALTHY]

\* The breaker after func returned.
OnSuccess(b) == [b EXCEPT !.failure_count = 0, !.status = HEALTHY]

\* Mutant: a failure is counted and its time is not recorded.
OnFailure_NoTimestamp(b, t) ==
    [b EXCEPT !.failure_count = b.failure_count + 1,
              !.status = IF b.failure_count + 1 >= b.config.max_failures
                         THEN FAILED ELSE DEGRADED]

\* The breaker after func raised at time t.
OnFailure(b, t) ==
    [b EXCEPT !.failure_count = b.failure_count + 1,
              !.last_failure_time = t,
              !.status = StatusAfterFailure(b.failure_count + 1, b.config.max_failures)]

\* Mutant: a FAILED breaker inside its recovery window still runs func.
BreakerCall_NoShortCircuit(b, t, op) ==
    LET b1 == IF b.status = FAILED THEN [b EXCEPT !.status = RECOVERING] ELSE b
        res == IF op.raises = "none"
               THEN [kind |-> "returned", value |-> [by |-> "operation", args |-> op.args]]
               ELSE [kind |-> "raised",
                     value |-> [exc |-> op.raises, by |-> "operation", args |-> op.args]]
    IN  [breaker |-> IF res.kind = "returned"
                     THEN [b1 EXCEPT !.failure_count = 0, !.status = HEALTHY]
                     ELSE [b1 EXCEPT !.failure_count = b.failure_count + 1,
                                     !.last_failure_time = t,
                                     !.status = IF b.failure_count + 1 >= b.config.max_failures
                                                THEN FAILED ELSE DEGRADED],
         out |-> res, invoked |-> 1, during |-> b1.status]

\* Mutant: a refused call restarts the recovery window.
BreakerCall_StampsRefusal(b, t, op) ==
    IF b.status = FAILED /\ ~(t - b.last_failure_time > b.config.recovery_time)
    THEN [breaker |-> [b EXCEPT !.last_failure_time = t],
          out |-> [kind |-> "raised",
                   value |-> [exc |-> "ServiceUnavailableError", by |-> "breaker",
                              args |-> "none", name |-> b.config.name]],
          invoked |-> 0, during |-> "none"]
    ELSE LET b1 == IF b.status = FAILED THEN [b EXCEPT !.status = RECOVERING] ELSE b
         IN  IF op.raises = "none"
             THEN [breaker |-> [b1 EXCEPT !.failure_count = 0, !.status = HEALTHY],
                   out |-> [kind |-> "returned",
                            value |-> [by |-> "operation", args |-> op.args]],
                   invoked |-> 1, during |-> b1.status]
             ELSE [breaker |-> [b1 EXCEPT !.failure_count = b.failure_count + 1,
                                          !.last_failure_time = t,
                                          !.status = IF b.failure_count + 1 >= b.config.max_failures
                                                     THEN FAILED ELSE DEGRADED],
                   out |-> [kind |-> "raised",
                            value |-> [exc |-> op.raises, by |-> "operation",
                                       args |-> op.args]],
                   invoked |-> 1, during |-> b1.status]

\* CircuitBreaker.call: the breaker afterwards, the outcome, how often func ran,
\* and the status func ran under.
BreakerCall(b, t, op) ==
    IF b.status = FAILED /\ ~RecoveryElapsed(b, t)
    THEN [breaker |-> b, out |-> ServiceUnavailable(b.config.name), invoked |-> 0,
          during |-> "none"]
    ELSE LET b1 == IF b.status = FAILED THEN [b EXCEPT !.status = RECOVERING] ELSE b
             res == Invoke(op)
         IN  [breaker |-> IF res.kind = "returned" THEN OnSuccess(b1) ELSE OnFailure(b1, t),
              out |-> res, invoked |-> 1, during |-> b1.status]

\* ---------------------------------------------------------------- actions
Put(f, k, v) == [x \in DOMAIN f \cup {k} |-> IF x = k THEN v ELSE f[x]]

Empty == [x \in {} |-> 0]

\* The record of a completed operation: what the caller got (out), what
\* CircuitBreaker.call gave (brk), how often func and the fallback ran, and the
\* breaker status func ran under.
Result(op, name, out, brk, opCalls, fbCalls, during) ==
    [op |-> op, name |-> name, out |-> out, brk |-> brk,
     opCalls |-> opCalls, fbCalls |-> fbCalls, during |-> during]

\* A manager operation that returns None.
Done(op, name) == Result(op, name, Returned([none |-> TRUE]), NoOutcome, 0, 0, "none")

\* The threads that call into the manager.
Threads == {"t1", "t2"}

\* A thread that is not inside call_service.
NoCall ==
    [pc |-> "idle", name |-> "", args |-> "none", config |-> [name |-> ""],
     during |-> "none", orphan |-> FALSE]

ManagerInit ==
    /\ services = Empty
    /\ fallback_handlers = Empty
    /\ now = 1
    /\ last = Result("init", "", NoOutcome, NoOutcome, 0, 0, "none")
    /\ fails = [n \in Names |-> 0]
    /\ lock = "free"
    /\ breaker_lock = [n \in Names |-> "free"]
    /\ marked = [n \in Names |-> FALSE]
    /\ initialized = FALSE

\* The last operation was not a call of a wrapper.
NoWrapped ==
    [name |-> "", args |-> "none", inline |-> "none", out |-> NoOutcome, inlineCalls |-> 0]

\* ErrorCollector.__init__
NewCollector(max_errors) ==
    [max_errors |-> max_errors, errors |-> <<>>, error_counts |-> Empty]

\* get_error_summary has not been called since the collector last changed.
NoSummary == [total_errors |-> -1, error_counts |-> Empty, recent_errors |-> <<>>]

\* The collector of the module (error_collector = ErrorCollector()).
CollectorInit(max_errors) ==
    /\ collector = NewCollector(max_errors)
    /\ added = <<>>
    /\ summary = NoSummary
    /\ cleared = FALSE

\* No call of a retrying callable is under way.
NoRetry ==
    [pc |-> "idle", max_attempts |-> 0, exceptions |-> {}, on_retry |-> "none",
     inner |-> "none", attempt |-> 0, attempts |-> <<>>, sleeps |-> 0,
     out |-> NoOutcome]

\* The clients of the manager and the decorated callables before they are used.
ClientsInit ==
    /\ calls = [t \in Threads |-> NoCall]
    /\ wrapped = NoWrapped
    /\ retry = NoRetry
    /\ stack = [t \in Threads |-> <<>>]

\* The Thread objects and the threads that call start / stop.
LoopIds == 1..MaxLoops
Callers == {"c1", "c2"}
NoSample == [status |-> "none"]

\* HealthMonitor.__init__; monitor_thread = 0 is None.
MonitorInit ==
    /\ monitor = [is_running |-> FALSE, stop_event |-> FALSE, monitor_thread |-> 0,
                  health_history |-> <<>>]
    /\ loops = [i \in LoopIds |-> [pc |-> "unborn", sample |-> NoSample]]
    /\ callers = [c \in Callers |-> [pc |-> "idle", target |-> 0]]

\* What the metrics sources give when they can be read.
Reading(cpu, memory, disk, error_rate, response_time) ==
    [cpu |-> cpu, memory |-> memory, disk |-> disk, error_rate |-> error_rate,
     response_time |-> response_time]

\* _check_alerts has not been called for the sample.
NoAlerts == [called |-> FALSE, lines |-> <<>>]

\* _determine_health_status called with r, not returned yet.
StatusInit(r) ==
    /\ reading = r
    /\ verdict = "none"
    /\ alerts = NoAlerts

\* The services whose API calls are recorded; api_metrics = {} at first.
ApiServices == {"anthropic", "slack"}

\* A thread that is not inside record_api_call.
NoRecording ==
    [pc |-> "idle", service |-> "", success |-> FALSE, response_time |-> 0, value |-> 0,
     orphan |-> FALSE]

ApiInit ==
    /\ api_metrics = Empty
    /\ recorded = [s \in ApiServices |-> <<>>]
    /\ recorders = [t \in Threads |-> NoRecording]

\* No error rate has been calculated since the counts last changed.
NoRate == [num |-> -1, den |-> 1]

\* The collectors the monitor and the agent build for themselves
\* (self.error_collector = ErrorCollector()).
RateInit ==
    /\ monitor_collector = NewCollector(DefaultMaxErrors)
    /\ agent_collector = NewCollector(DefaultMaxErrors)
    /\ rate = NoRate

\* The parts of the health monitor beyond its sampler, before they are used.
GaugesInit ==
    /\ StatusInit(Reading(0, 0, 0, 0, 0))
    /\ ApiInit
    /\ RateInit

Init ==
    /\ ManagerInit
    /\ ClientsInit
    /\ CollectorInit(DefaultMaxErrors)
    /\ MonitorInit
    /\ GaugesInit

\* One second passes between two operations.
Tick ==
    /\ now < MaxTime
    /\ now' = now + 1
    /\ UNCHANGED <<services, fallback_handlers, last, fails>>

\* GracefulDegradation.register_service
RegisterService(config) ==
    /\ services' = Put(services, config.name, NewCircuitBreaker(config))
    /\ fails' = [fails EXCEPT ![config.name] = 0]
    /\ last' = Done("register_service", config.name)
    /\ UNCHANGED <<fallback_handlers, now>>

\* GracefulDegradation.register_fallback
RegisterFallback(name, f) ==
    /\ fallback_handlers' = Put(fallback_handlers, name, f)
    /\ last' = Done("register_fallback", name)
    /\ UNCHANGED <<services, now, fails>>

\* Mutant: the fallback answers only for ServiceUnavailableError.
UsesFallback_UnavailableOnly(name, e, config) ==
    e.exc = "ServiceUnavailableError" /\ name \in DOMAIN fallback_handlers

\* The except clauses of call_service: whether the fallback answers for a
\* raised exception e.
UsesFallback(name, e, config) ==
    IF e.exc = "ServiceUnavailableError"
    THEN name \in DOMAIN fallback_handlers
    ELSE name \in DOMAIN fallback_handlers /\ config.fallback_enabled

\* Mutant: call_service registers an unknown name with the default config, as
\* is_service_available does, before calling func directly.
PassThrough_Registers(name, op) ==
    /\ last' = [op |-> "call_service", name |-> name,
                out |-> IF op.raises = "none"
                        THEN [kind |-> "returned",
                              value |-> [by |-> "operation", args |-> op.args]]
                        ELSE [kind |-> "raised",
                              value |-> [exc |-> op.raises, by |-> "operation",
                                         args |-> op.args]],
                brk |-> [kind |-> "none", value |-> [none |-> TRUE]],
                opCalls |-> 1, fbCalls |-> 0, during |-> "none"]
    /\ services' = [x \in DOMAIN services \cup {name} |->
                      IF x = name
                      THEN [config |-> [name |-> name, max_failures |-> 3,
                                        failure_window |-> 300, recovery_time |-> 60,
                                        fallback_enabled |-> TRUE],
                            failure_count |-> 0, last_failure_time |-> 0,
                            status |-> "healthy"]
                      ELSE services[x]]
    /\ UNCHANGED <<fallback_handlers, now, fails>>

\* call_service on a name without a breaker: func is called directly.
PassThrough(name, op) ==
    /\ last' = Result("call_service", name, Invoke(op), NoOutcome, 1, 0, "none")
    /\ UNCHANGED <<services, fallback_handlers, now, fails>>

\* call_service on a registered name: through the breaker, then the except
\* clauses.
Guarded(name, op, fbRaises) ==
    LET r == BreakerCall(services[name], now, op)
        fb == r.out.kind = "raised" /\ UsesFallback(name, r.out.value, services[name].config)
    IN  /\ services' = [services EXCEPT ![name] = r.breaker]
        /\ fails' = [fails EXCEPT ![name] =
                       IF r.invoked = 0 THEN @
                       ELSE IF r.out.kind = "raised" THEN @ + 1 ELSE 0]
        /\ last' = Result("call_service", name,
                          IF fb THEN InvokeFallback(fallback_handlers[name], fbRaises, op.args)
                                ELSE r.out,
                          r.out, r.invoked, IF fb THEN 1 ELSE 0,
                          r.during)
        /\ UNCHANGED <<fallback_handlers, now>>

\* GracefulDegradation.call_service
CallService(name, op, fbRaises) ==
    IF name \notin DOMAIN services
    THEN PassThrough(name, op)
    ELSE Guarded(name, op, fbRaises)

\* The breaker of a name the manager has not seen, as both lazy paths build it.
EnsureRegistered(name) ==
    IF name \in DOMAIN services THEN services
    ELSE Put(services, name, NewCircuitBreaker(DefaultConfig(name)))

\* Mutant: the administrative trip sets the status and the time only.
Tripped_StatusOnly(b, t) ==
    [b EXCEPT !.status = FAILED, !.last_failure_time = t]

\* The three assignments of mark_service_unavailable (the administrative trip).
Tripped(b, t) ==
    [b EXCEPT !.status = FAILED,
              !.failure_count = b.config.max_failures,
              !.last_failure_time = t]

\* Mutant: the administrative trip marks every registered service.
MarkServiceUnavailable_TripsAll(name) ==
    LET s1 == IF name \in DOMAIN services THEN services
              ELSE [x \in DOMAIN services \cup {name} |->
                      IF x = name
                      THEN [config |-> [name |-> name, max_failures |-> 3,
                                        failure_window |-> 300, recovery_time |-> 60,
                                        fallback_enabled |-> TRUE],
                            failure_count |-> 0, last_failure_time |-> 0,
                            status |-> "healthy"]
                      ELSE services[x]]
    IN  /\ services' = [x \in DOMAIN s1 |->
                          [s1[x] EXCEPT !.status = "failed",
                                        !.failure_count = s1[x].config.max_failures,
                                        !.last_failure_time = now]]
        /\ fails' = [fails EXCEPT ![name] = IF name \in DOMAIN services THEN @ ELSE 0]
        /\ last' = [op |-> "mark_service_unavailable", name |-> name,
                    out |-> [kind |-> "returned", value |-> [none |-> TRUE]],
                    brk |-> [kind |-> "none", value |-> [none |-> TRUE]],
                    opCalls |-> 0, fbCalls |-> 0, during |-> "none"]
        /\ UNCHANGED <<fallback_handlers, now>>

\* GracefulDegradation.mark_service_unavailable
MarkServiceUnavailable(name) ==
    LET s1 == EnsureRegistered(name)
    IN  /\ services' = [s1 EXCEPT ![name] = Tripped(s1[name], now)]
        /\ fails' = [fails EXCEPT ![name] = IF name \in DOMAIN services THEN @ ELSE 0]
        /\ last' = Done("mark_service_unavailable", name)
        /\ UNCHANGED <<fallback_handlers, now>>

\* Mutant: a FAILED breaker counts as available too.
AvailableStatuses_WithFailed == {HEALTHY, DEGRADED, RECOVERING, FAILED}

\* The statuses is_service_available counts as available.
AvailableStatuses == {HEALTHY, DEGRADED, RECOVERING}

\* Mutant: the query applies the recovery check of CircuitBreaker.call.
IsServiceAvailable_Recovers(name) ==
    LET s0 == IF name \in DOMAIN services THEN services
              ELSE [x \in DOMAIN services \cup {name} |->
                      IF x = name
                      THEN [config |-> [name |-> name, max_failures |-> 3,
                                        failure_window |-> 300, recovery_time |-> 60,
                                        fallback_enabled |-> TRUE],
                            failure_count |-> 0, last_failure_time |-> 0,
                            status |-> "healthy"]
                      ELSE services[x]]
        s1 == IF /\ s0[name].status = "failed"
                 /\ now - s0[name].last_failure_time > s0[name].config.recovery_time
              THEN [s0 EXCEPT ![name].status = "recovering"]
              ELSE s0
    IN  /\ services' = s1
        /\ fails' = [fails EXCEPT ![name] = IF name \in DOMAIN services THEN @ ELSE 0]
        /\ last' = [op |-> "is_service_available", name |-> name,
                    out |-> [kind |-> "returned",
                             value |-> [bool |-> s1[name].status
                                                   \in {"healthy", "degraded", "recovering"}]],
                    brk |-> [kind |-> "none", value |-> [none |-> TRUE]],
                    opCalls |-> 0, fbCalls |-> 0, during |-> "none"]
        /\ UNCHANGED <<fallback_handlers, now>>

\* GracefulDegradation.is_service_available
IsServiceAvailable(name) ==
    LET s1 == EnsureRegistered(name)
    IN  /\ services' = s1
        /\ fails' = [fails EXCEPT ![name] = IF name \in DOMAIN services THEN @ ELSE 0]
        /\ last' = Result("is_service_available", name,
                          Returned([bool |-> s1[name].status \in AvailableStatuses]),
                          NoOutcome, 0, 0, "none")
        /\ UNCHANGED <<fallback_handlers, now>>

\* The dict get_service_status returns.
StatusOf(name) ==
    IF name \notin DOMAIN services
    THEN [status |-> "unknown", message |-> "Servicio no registrado"]
    ELSE [name |-> name,
          status |-> services[name].status,
          failure_count |-> services[name].failure_count,
          max_failures |-> services[name].config.max_failures,
          last_failure_time |-> services[name].last_failure_time,
          has_fallback |-> name \in DOMAIN fallback_handlers]

\* GracefulDegradation.get_service_status
GetServiceStatus(name) ==
    /\ last' = Result("get_service_status", name, Returned(StatusOf(name)), NoOutcome,
                      0, 0, "none")
    /\ UNCHANGED <<services, fallback_handlers, now, fails>>

\* One completed operation on a service of N, or the passing of time.
Step(N) ==
    \/ Tick /\ UNCHANGED beyondManager
    \/ \E n \in N : \E c \in Configs(n) : RegisterService(c) /\ UNCHANGED beyondManager
    \/ \E n \in N : \E f \in FallbackIds : RegisterFallback(n, f) /\ UNCHANGED beyondManager
    \/ \E n \in N : MarkServiceUnavailable(n) /\ UNCHANGED beyondManager
    \/ \E n \in N : IsServiceAvailable(n) /\ UNCHANGED beyondManager
    \/ \E n \in N : GetServiceStatus(n) /\ UNCHANGED beyondManager
    \/ \E n \in N : \E op \in Operations : \E fbRaises \in BOOLEAN :
            CallService(n, op, fbRaises) /\ UNCHANGED beyondManager

\* The names Spec drives.
Driven == {"llm"}

Next == Step(Driven)

Spec == Init /\ [][Next]_vars

\* ================================================================= claims
\* The inputs of one call_service step.
Calls == Driven \X Operations \X BOOLEAN

\* The step is call_service with inputs c = <<name, operation, fallback raises>>
\* (the first two conjuncts follow from the third and are tested first).
Called(c) ==
    /\ last'.op = "call_service"
    /\ last'.name = c[1]
    /\ CallService(c[1], c[2], c[3])

Registered(n) == n \in DOMAIN services
Elapsed(n) == now - services[n].last_failure_time
Cfg(n) == services[n].config

\* C1: a breaker that starts HEALTHY is FAILED once max_failures invocations
\* in a row have failed, and a call on a FAILED breaker made while
\* now - last_failure_time < recovery_time raises ServiceUnavailableError
\* without invoking the operation.
C1_Tripped ==
    \A n \in DOMAIN services :
        fails[n] >= Cfg(n).max_failures => services[n].status = FAILED

C1_ShortCircuit ==
    \A c \in Calls :
        LET n == c[1] IN
        (/\ Called(c)
         /\ Registered(n)
         /\ services[n].status = FAILED
         /\ Elapsed(n) < Cfg(n).recovery_time)
        => /\ last'.opCalls = 0
           /\ last'.brk.kind = "raised"
           /\ last'.brk.value.exc = "ServiceUnavailableError"
           /\ last'.brk.value.by = "breaker"

C1_TripsAndShortCircuits == [](C1_Tripped) /\ [][C1_ShortCircuit]_vars

\* C1 witness: the call after the max_failures-th failure in a row was refused.
C1_Witness ==
    /\ Registered("llm")
    /\ Cfg("llm").max_failures = 3
    /\ fails["llm"] = 3
    /\ services["llm"].failure_count = 3
    /\ last.op = "call_service"
    /\ last.opCalls = 0
    /\ last.brk.kind = "raised"

\* C2: a call on a FAILED breaker made after recovery_time has elapsed invokes
\* the operation under status RECOVERING; if the operation succeeds the
\* breaker ends HEALTHY with failure_count 0 and the operation's result is
\* returned.
C2_Step ==
    \A c \in Calls :
        LET n == c[1]
            op == c[2] IN
        (/\ Called(c)
         /\ Registered(n)
         /\ services[n].status = FAILED
         /\ Elapsed(n) > Cfg(n).recovery_time)
        => /\ last'.opCalls = 1
           /\ last'.during = RECOVERING
           /\ op.raises = "none" =>
                /\ services'[n].status = HEALTHY
                /\ services'[n].failure_count = 0
                /\ last'.out = [kind |-> "returned",
                                value |-> [by |-> "operation", args |-> op.args]]
                /\ last'.fbCalls = 0

C2_RecoveryProbe == [][C2_Step]_vars

\* C2 witness: a probe under RECOVERING succeeded and closed the breaker.
C2_Witness ==
    /\ Registered("llm")
    /\ last.op = "call_service"
    /\ last.during = RECOVERING
    /\ last.out.kind = "returned"
    /\ last.out.value.by = "operation"
    /\ services["llm"].status = HEALTHY

\* C3: with 0 < k < max_failures failures counted (status DEGRADED), one
\* successful call sets failure_count to 0 and status to HEALTHY, and a
\* breaker that is HEALTHY or DEGRADED carries exactly the failures of the
\* current run, so a call trips it only when the run reaches max_failures.
C3_RunCounted ==
    \A n \in DOMAIN services :
        services[n].status \in {HEALTHY, DEGRADED} => services[n].failure_count = fails[n]

C3_Step ==
    \A c \in Calls :
        LET n == c[1]
            op == c[2] IN
        (Called(c) /\ Registered(n))
        => /\ (/\ services[n].status = DEGRADED
               /\ services[n].failure_count > 0
               /\ services[n].failure_count < Cfg(n).max_failures
               /\ op.raises = "none")
              => /\ services'[n].failure_count = 0
                 /\ services'[n].status = HEALTHY
                 /\ fails'[n] = 0
           /\ (/\ services[n].status \in {HEALTHY, DEGRADED}
               /\ services'[n].status = FAILED)
              => fails'[n] = Cfg(n).max_failures

C3_SuccessResets == [](C3_RunCounted) /\ [][C3_Step]_vars

\* C3 witness: the operation succeeded on a DEGRADED breaker that allows three
\* failures, and the breaker is HEALTHY again.
C3_Witness ==
    /\ Registered("llm")
    /\ Cfg("llm").max_failures = 3
    /\ last.op = "call_service"
    /\ last.during = DEGRADED
    /\ last.out.kind = "returned"
    /\ last.out.value.by = "operation"
    /\ services["llm"].status = HEALTHY
    /\ services["llm"].failure_count = 0

\* C4: every breaker (max_failures >= 1) has failure_count = 0 when HEALTHY
\* and failure_count >= max_failures when FAILED.
C4_BreakerInvariant ==
    \A n \in DOMAIN services :
        Cfg(n).max_failures >= 1 =>
            /\ services[n].status = HEALTHY => services[n].failure_count = 0
            /\ services[n].status = FAILED =>
                 services[n].failure_count >= Cfg(n).max_failures

\* C4 witness: a breaker tripped by mark_service_unavailable after one counted
\* failure.
C4_Witness ==
    /\ Registered("llm")
    /\ last.op = "mark_service_unavailable"
    /\ fails["llm"] = 1
    /\ services["llm"].status = FAILED
    /\ services["llm"].failure_count = 3

\* C5: when the operation raises, failure_count grows by exactly 1,
\* last_failure_time is the current time, status is FAILED if the new count
\* >= max_failures and DEGRADED otherwise, and CircuitBreaker.call raises the
\* same exception.
C5_Step ==
    \A c \in Calls :
        LET n == c[1]
            op == c[2] IN
        (/\ Called(c)
         /\ Registered(n)
         /\ last'.opCalls = 1
         /\ op.raises # "none")
        => /\ services'[n].failure_count = services[n].failure_count + 1
           /\ services'[n].last_failure_time = now
           /\ services'[n].status =
                IF services[n].failure_count + 1 >= Cfg(n).max_failures
                THEN FAILED ELSE DEGRADED
           /\ services'[n].config = services[n].config
           /\ last'.brk = [kind |-> "raised",
                           value |-> [exc |-> op.raises, by |-> "operation",
                                      args |-> op.args]]

C5_FailureCounted == [][C5_Step]_vars

\* C5 witness: a failed probe of a FAILED breaker was counted on top of
\* max_failures at a later time.
C5_Witness ==
    /\ Registered("llm")
    /\ last.op = "call_service"
    /\ last.during = RECOVERING
    /\ last.brk.kind = "raised"
    /\ services["llm"].failure_count = Cfg("llm").max_failures + 1
    /\ services["llm"].last_failure_time = now
    /\ now > 1

\* C6: with fallback_enabled and a registered fallback, a raising operation
\* makes call_service answer with the fallback, called with the same
\* arguments (it returns the fallback's value instead of raising), and the
\* failure is counted by the breaker.
C6_Step ==
    \A c \in Calls :
        LET n == c[1]
            op == c[2] IN
        (/\ Called(c)
         /\ Registered(n)
         /\ Cfg(n).fallback_enabled
         /\ n \in DOMAIN fallback_handlers
         /\ last'.opCalls = 1
         /\ op.raises # "none")
        => /\ last'.fbCalls = 1
           /\ last'.out.value.by = fallback_handlers[n]
           /\ last'.out.value.args = op.args
           /\ ~c[3] => last'.out.kind = "returned"
           /\ services'[n].failure_count = services[n].failure_count + 1
           /\ services'[n].status \in {DEGRADED, FAILED}

C6_FallbackOnFailure == [][C6_Step]_vars

\* C6 witness: the fallback G answered a failure that left the breaker DEGRADED.
C6_Witness ==
    /\ Registered("llm")
    /\ last.op = "call_service"
    /\ last.opCalls = 1
    /\ last.fbCalls = 1
    /\ last.out.kind = "returned"
    /\ last.out.value.by = "G"
    /\ last.out.value.args = "args2"
    /\ last.brk.value.exc = "OperationError"
    /\ services["llm"].status = DEGRADED

\* C7: service with max_failures = 3, recovery_time = 1 and a fallback: the
\* third failing call_service in a row leaves it FAILED; a call less than
\* recovery_time later does not invoke the operation and returns the
\* fallback's value; a call after recovery_time with a succeeding operation
\* returns the operation's result and leaves it HEALTHY.
C7_Step ==
    \A c \in Calls :
        LET n == c[1]
            op == c[2] IN
        (/\ Called(c)
         /\ Registered(n)
         /\ Cfg(n).max_failures = 3
         /\ Cfg(n).recovery_time = 1
         /\ n \in DOMAIN fallback_handlers)
        => /\ (fails[n] = 2 /\ fails'[n] = 3) => services'[n].status = FAILED
           /\ (fails[n] >= 3 /\ Elapsed(n) < 1)
              => /\ last'.opCalls = 0
                 /\ last'.brk.value.exc = "ServiceUnavailableError"
                 /\ last'.fbCalls = 1
                 /\ last'.out.value.by = fallback_handlers[n]
                 /\ ~c[3] => last'.out.kind = "returned"
                 /\ services'[n].status = FAILED
           /\ (fails[n] >= 3 /\ Elapsed(n) > 1 /\ op.raises = "none")
              => /\ last'.opCalls = 1
                 /\ last'.fbCalls = 0
                 /\ last'.out = [kind |-> "returned",
                                 value |-> [by |-> "operation", args |-> op.args]]
                 /\ services'[n].status = HEALTHY

C7_Scenario == [][C7_Step]_vars

\* C7 witness: the fourth call, right after three failures, was answered by F
\* without the operation being invoked.
C7_Witness ==
    /\ Registered("llm")
    /\ Cfg("llm").max_failures = 3
    /\ Cfg("llm").recovery_time = 1
    /\ fails["llm"] = 3
    /\ "llm" \in DOMAIN fallback_handlers
    /\ fallback_handlers["llm"] = "F"
    /\ last.op = "call_service"
    /\ last.opCalls = 0
    /\ last.fbCalls = 1
    /\ last.out.kind = "returned"
    /\ last.out.value.by = "F"
    /\ services["llm"].status = FAILED

\* C8: a failing call_service propagates the exception and invokes no fallback
\* exactly when no fallback is registered, or the operation raised and
\* fallback_enabled is false; in every other failing case the fallback
\* answers.
C8_Step ==
    \A c \in Calls :
        LET n == c[1]
            op == c[2] IN
        (/\ Called(c)
         /\ Registered(n)
         /\ last'.brk.kind = "raised")
        => LET propagate ==
                 \/ n \notin DOMAIN fallback_handlers
                 \/ (last'.opCalls = 1 /\ ~Cfg(n).fallback_enabled)
           IN  IF propagate
               THEN last'.fbCalls = 0 /\ last'.out = last'.brk
               ELSE last'.fbCalls = 1 /\ last'.out.value.by = fallback_handlers[n]

C8_PropagationCases == [][C8_Step]_vars

\* C9: call_service on a name without a breaker invokes the operation once,
\* hands its result or exception to the caller unchanged, leaves the
\* registry unchanged and invokes no fallback registered under the name.
C9_Step ==
    \A c \in Calls :
        LET n == c[1]
            op == c[2] IN
        (Called(c) /\ ~Registered(n))
        => /\ last'.opCalls = 1
           /\ last'.fbCalls = 0
           /\ last'.out =
                IF op.raises = "none"
                THEN [kind |-> "returned", value |-> [by |-> "operation", args |-> op.args]]
                ELSE [kind |-> "raised",
                      value |-> [exc |-> op.raises, by |-> "operation", args |-> op.args]]
           /\ services' = services
           /\ fallback_handlers' = fallback_handlers

C9_PassThrough == [][C9_Step]_vars

\* C9 witness: an operation failed on an unregistered name that has a fallback.
C9_Witness ==
    /\ ~Registered("llm")
    /\ "llm" \in DOMAIN fallback_handlers
    /\ last.op = "call_service"
    /\ last.name = "llm"
    /\ last.out.kind = "raised"
    /\ last.out.value.by = "operation"
    /\ last.fbCalls = 0

\* C10: for an unknown name get_service_status answers 'unknown' and leaves
\* the registry alone; is_service_available adds a HEALTHY breaker with the
\* default config (max_failures 3, recovery_time 60, failure_count 0) and
\* answers true, after which get_service_status answers 'healthy'.
C10_Step ==
    \A n \in Driven :
        ~Registered(n) =>
            /\ GetServiceStatus(n)
               => /\ last'.out.kind = "returned"
                  /\ last'.out.value.status = "unknown"
                  /\ services' = services
            /\ IsServiceAvailable(n)
               => /\ DOMAIN services' = DOMAIN services \cup {n}
                  /\ services'[n].config.name = n
                  /\ services'[n].config.max_failures = 3
                  /\ services'[n].config.recovery_time = 60
                  /\ services'[n].status = HEALTHY
                  /\ services'[n].failure_count = 0
                  /\ last'.out = [kind |-> "returned", value |-> [bool |-> TRUE]]
                  /\ StatusOf(n)'.status = "healthy"

C10_UnknownName == [][C10_Step]_vars

\* C10 witness: is_service_available registered the name lazily and said true.
C10_Witness ==
    /\ last.op = "is_service_available"
    /\ last.out.value.bool
    /\ Registered("llm")
    /\ Cfg("llm").recovery_time = 60
    /\ services["llm"].last_failure_time = 0
    /\ services["llm"].status = HEALTHY

\* C11: after mark_service_unavailable(name), for a registered or an unknown
\* name, the breaker exists, is FAILED and has failure_count = max_failures;
\* is_service_available(name) then answers false, and a call_service made
\* within recovery_time is refused without invoking the operation.
C11_AfterMark ==
    last.op = "mark_service_unavailable" =>
        /\ Registered(last.name)
        /\ services[last.name].status = FAILED
        /\ services[last.name].failure_count = Cfg(last.name).max_failures

C11_Step ==
    \A n \in Driven :
        (last.op = "mark_service_unavailable" /\ last.name = n) =>
            /\ IsServiceAvailable(n) =>
                 last'.out = [kind |-> "returned", value |-> [bool |-> FALSE]]
            /\ \A c \in Calls :
                 (c[1] = n /\ Called(c) /\ Elapsed(n) <= Cfg(n).recovery_time)
                 => /\ last'.opCalls = 0
                    /\ last'.brk.kind = "raised"
                    /\ last'.brk.value.exc = "ServiceUnavailableError"
                    /\ services' = services

C11_MarkStep ==
    \A m \in Driven :
        MarkServiceUnavailable(m)
        => /\ m \in DOMAIN services'
           /\ services'[m].status = FAILED
           /\ services'[m].failure_count = services'[m].config.max_failures
           /\ services'[m].last_failure_time = now
           /\ ~Registered(m) => services'[m].config.max_failures = 3

C11_MarkTrips == [](C11_AfterMark) /\ [][C11_MarkStep /\ C11_Step]_vars

\* C11 witness: a previously unknown name was marked, a second passed, and the
\* breaker with the default config is FAILED with three failures counted.
C11_Witness ==
    /\ last.op = "mark_service_unavailable"
    /\ last.name = "llm"
    /\ Registered("llm")
    /\ Cfg("llm").recovery_time = 60
    /\ services["llm"].failure_count = 3
    /\ services["llm"].status = FAILED
    /\ now > services["llm"].last_failure_time

\* ============================================ calls in flight (threads)
\* CircuitBreaker.call holds the breaker's lock for the recovery check and for
\* the bookkeeping after func, and not while func runs: a call_service is two
\* steps, and other threads' operations run between them.

\* The recovery check found the breaker FAILED inside its recovery window.
Refused(b, t) == b.status = FAILED /\ ~RecoveryElapsed(b, t)

\* The breaker after the first locked block of call let the caller through.
Admitted(b) == IF b.status = FAILED THEN [b EXCEPT !.status = RECOVERING] ELSE b

\* call_service up to the point where func starts (or, for a refused call and
\* for a name without a breaker, to its end: no other code runs in between).
\* Whether func raises is settled when it ends.
CallEnter(t, name, op, fbRaises) ==
    /\ calls[t].pc = "idle"
    /\ IF name \notin DOMAIN services \/ Refused(services[name], now)
       THEN CallService(name, op, fbRaises) /\ UNCHANGED calls
       ELSE /\ services' = [services EXCEPT ![name] = Admitted(services[name])]
            /\ calls' = [calls EXCEPT ![t] =
                           [pc |-> "running", name |-> name, args |-> op.args,
                            config |-> services[name].config,
                            during |-> Admitted(services[name]).status,
                            orphan |-> FALSE]]
            /\ UNCHANGED <<fallback_handlers, now, last, fails>>

\* Mutant: the bookkeeping is done on the breaker the registry holds now.
AfterReturn_OnRegistry(c, res) ==
    [services EXCEPT ![c.name] =
        IF res.kind = "returned" THEN OnSuccess(@) ELSE OnFailure(@, now)]

\* The registry after the bookkeeping of call, which is done on the breaker
\* the caller looked up when it entered (circuit_breaker): a breaker that
\* register_service replaced meanwhile is no longer in the registry.
AfterReturn(c, res) ==
    IF c.orphan THEN services
    ELSE [services EXCEPT ![c.name] =
            IF res.kind = "returned" THEN OnSuccess(@) ELSE OnFailure(@, now)]

\* func returns or raises: the bookkeeping of call on the breaker the caller
\* holds, then the except clauses of call_service.
CallReturn(t, raises, fbRaises) ==
    /\ calls[t].pc = "running"
    /\ LET c == calls[t]
           res == Invoke([raises |-> raises, args |-> c.args])
           fb == res.kind = "raised" /\ UsesFallback(c.name, res.value, c.config)
       IN  /\ services' = AfterReturn(c, res)
           /\ fails' = IF c.orphan THEN fails
                       ELSE [fails EXCEPT ![c.name] =
                               IF res.kind = "raised" THEN @ + 1 ELSE 0]
           /\ last' = Result("call_service", c.name,
                             IF fb THEN InvokeFallback(fallback_handlers[c.name],
                                                       fbRaises, c.args)
                                   ELSE res,
                             res, 1, IF fb THEN 1 ELSE 0, c.during)
           /\ calls' = [calls EXCEPT ![t] = NoCall]
           /\ UNCHANGED <<fallback_handlers, now>>

\* register_service while calls are in flight: they keep the old breaker.
RegisterServiceInFlight(config) ==
    /\ RegisterService(config)
    /\ calls' = [t \in Threads |->
                   IF calls[t].pc = "running" /\ calls[t].name = config.name
                   THEN [calls[t] EXCEPT !.orphan = TRUE] ELSE calls[t]]

\* The statuses can_operate_in_degraded_mode counts as available.
OperableStatuses == {HEALTHY, DEGRADED}

\* What can_operate_in_degraded_mode returns.
CanOperate ==
    IF DOMAIN services = {} THEN TRUE
    ELSE Cardinality({n \in DOMAIN services :
                        \/ services[n].status \in OperableStatuses
                        \/ n \in DOMAIN fallback_handlers}) > 0

\* GracefulDegradation.can_operate_in_degraded_mode
CanOperateInDegradedMode ==
    /\ last' = Result("can_operate_in_degraded_mode", "",
                      Returned([bool |-> CanOperate]), NoOutcome, 0, 0, "none")
    /\ UNCHANGED <<services, fallback_handlers, now, fails>>

\* The manager used while the threads of T are inside call_service.
StepFlight(T) ==
    \/ Tick /\ UNCHANGED beyondManager
    \/ \E n \in Driven : \E c \in Configs(n) : RegisterServiceInFlight(c) /\ UNCHANGED beyondFlight
    \/ \E n \in Driven : \E f \in FallbackIds : RegisterFallback(n, f) /\ UNCHANGED beyondManager
    \/ \E n \in Driven : MarkServiceUnavailable(n) /\ UNCHANGED beyondManager
    \/ \E n \in Driven : IsServiceAvailable(n) /\ UNCHANGED beyondManager
    \/ CanOperateInDegradedMode /\ UNCHANGED beyondManager
    \/ \E t \in T : \E n \in Driven : \E op \in Operations : \E fbRaises \in BOOLEAN :
            CallEnter(t, n, op, fbRaises) /\ UNCHANGED beyondFlight
    \/ \E t \in T : \E raises \in {"none"} \cup OperationErrors : \E fbRaises \in BOOLEAN :
            CallReturn(t, raises, fbRaises) /\ UNCHANGED beyondFlight

\* The threads SpecFlight drives.
Flying == {"t1"}

NextFlight == StepFlight(Flying)

SpecFlight == Init /\ [][NextFlight]_vars

\* C12: can_operate_in_degraded_mode returns true exactly when the registry is
\* empty, or some registered service is not FAILED, or some registered service
\* has a fallback.
C12_Claimed ==
    \/ DOMAIN services = {}
    \/ \E n \in DOMAIN services : services[n].status # FAILED
    \/ \E n \in DOMAIN services : n \in DOMAIN fallback_handlers

C12_Step ==
    (CanOperateInDegradedMode /\ last'.op = "can_operate_in_degraded_mode")
    => last'.out.value.bool = C12_Claimed

C12_CanOperate == [][C12_Step]_vars

\* ================================================ with_graceful_degradation
\* The inline fallbacks given at wrap time, each with whether it raises when
\* called; "none" is fallback_func = None.
InlineFallbacks == {<<"none", FALSE>>, <<"H", FALSE>>, <<"H", TRUE>>}

\* Mutant: the inline fallback answers only when no per-service fallback ran.
UsesInline_NotAfterFallback(r, inline) ==
    r.out.kind = "raised" /\ inline # "none" /\ r.fbCalls = 0

\* The except clause of wrapper: whether the inline fallback answers for what
\* call_service did (r).
UsesInline(r, inline) == r.out.kind = "raised" /\ inline # "none"

\* wrapper(*args, **kwargs) of with_graceful_degradation(name, inline)(func)
WrappedCall(name, op, fbRaises, inline, inlineRaises) ==
    /\ CallService(name, op, fbRaises)
    /\ wrapped' = IF UsesInline(last', inline)
                  THEN [name |-> name, args |-> op.args, inline |-> inline,
                        out |-> InvokeFallback(inline, inlineRaises, op.args),
                        inlineCalls |-> 1]
                  ELSE [name |-> name, args |-> op.args, inline |-> inline,
                        out |-> last'.out, inlineCalls |-> 0]

\* The manager as the owners of wrapped callables use it: they configure it
\* and call the wrappers.
StepWrap(N) ==
    \/ Tick /\ UNCHANGED beyondManager
    \/ \E n \in N : \E c \in Configs(n) :
            RegisterService(c) /\ wrapped' = NoWrapped /\ UNCHANGED beyondWrapper
    \/ \E n \in N : \E f \in FallbackIds :
            RegisterFallback(n, f) /\ wrapped' = NoWrapped /\ UNCHANGED beyondWrapper
    \/ \E n \in N : MarkServiceUnavailable(n) /\ wrapped' = NoWrapped /\ UNCHANGED beyondWrapper
    \/ \E n \in N : \E op \in Operations : \E fbRaises \in BOOLEAN :
       \E inline \in InlineFallbacks :
            WrappedCall(n, op, fbRaises, inline[1], inline[2]) /\ UNCHANGED beyondWrapper

NextWrap == StepWrap(Driven)

SpecWrap == Init /\ [][NextWrap]_vars

\* C13: a wrapped callable goes through call_service; whenever call_service
\* raises (breaker open and no per-service fallback, operation failure and no
\* usable fallback, per-service fallback raising) the inline fallback runs once
\* with the same arguments and its outcome is the wrapper's; without an inline
\* fallback the exception of call_service propagates; when call_service
\* returns, the wrapper returns that value and the inline fallback is not run.
C13_InlineFallback ==
    wrapped # NoWrapped =>
        /\ last.op = "call_service"
        /\ last.name = wrapped.name
        /\ (last.out.kind = "raised" /\ wrapped.inline # "none")
           => /\ wrapped.inlineCalls = 1
              /\ \E inlineRaises \in BOOLEAN :
                   wrapped.out = InvokeFallback(wrapped.inline, inlineRaises, wrapped.args)
              /\ wrapped.out.value.args = wrapped.args
              /\ wrapped.out.value.by = wrapped.inline
        /\ (last.out.kind = "raised" /\ wrapped.inline = "none")
           => /\ wrapped.inlineCalls = 0
              /\ wrapped.out = last.out
        /\ last.out.kind = "returned"
           => /\ wrapped.inlineCalls = 0
              /\ wrapped.out = last.out
        /\ (last.brk.kind = "raised" /\ last.fbCalls = 0) => last.out.kind = "raised"
        /\ (last.opCalls = 1 /\ last.out.kind = "returned" /\ last.fbCalls = 0)
           => last.out.value.args = wrapped.args

\* C13 witness: the per-service fallback ran and raised, and the inline
\* fallback then answered with the caller's arguments.
C13_Witness ==
    /\ last.op = "call_service"
    /\ last.fbCalls = 1
    /\ last.out.kind = "raised"
    /\ wrapped.inlineCalls = 1
    /\ wrapped.args = "args2"
    /\ wrapped.out = Returned([by |-> "H", args |-> "args2"])

\* ========================================================= ErrorCollector
\* src/src/utils/error_handler.py.  A record of the detail buffer is the
\* exception's type name and n, which stands for its timestamp and message.
ErrorTypes == {"ValueError", "APIError"}

ErrorInfo(type, n) == [type |-> type, n |-> n]

\* Mutant: a full buffer drops the record just appended.
Evict_DropsNewest(errors, max_errors) ==
    IF Len(errors) > max_errors THEN SubSeq(errors, 1, Len(errors) - 1) ELSE errors

\* add_error: keep only the last max_errors records (one pop(0) per append).
Evict(errors, max_errors) ==
    IF Len(errors) > max_errors THEN Tail(errors) ELSE errors

\* add_error: error_counts[type] = error_counts.get(type, 0) + 1
Counted(error_counts, type) ==
    Put(error_counts, type,
        (IF type \in DOMAIN error_counts THEN error_counts[type] ELSE 0) + 1)

\* ErrorCollector.add_error
AddError(type) ==
    /\ Len(added) < MaxAdds
    /\ LET info == ErrorInfo(type, Len(added) + 1)
       IN  /\ collector' = [collector EXCEPT
                              !.errors = Evict(Append(@, info), collector.max_errors),
                              !.error_counts = Counted(@, type)]
           /\ added' = Append(added, info)
    /\ summary' = NoSummary
    /\ UNCHANGED cleared

\* seq[-k:]
LastOf(seq, k) ==
    IF Len(seq) <= k THEN seq ELSE SubSeq(seq, Len(seq) - k + 1, Len(seq))

\* ErrorCollector.get_error_summary
GetErrorSummary ==
    /\ summary' = [total_errors |-> Len(collector.errors),
                   error_counts |-> collector.error_counts,
                   recent_errors |-> IF collector.errors # <<>>
                                     THEN LastOf(collector.errors, RecentCount)
                                     ELSE <<>>]
    /\ UNCHANGED <<collector, added, cleared>>

\* Mutant: only the detail buffer is cleared.
Cleared_BufferOnly(c) == [c EXCEPT !.errors = <<>>]

\* clear_errors: self.errors.clear(); self.error_counts.clear()
Cleared(c) == [c EXCEPT !.errors = <<>>, !.error_counts = Empty]

\* ErrorCollector.clear_errors
ClearErrors ==
    /\ collector' = Cleared(collector)
    /\ added' = <<>>
    /\ summary' = NoSummary
    /\ cleared' = (cleared \/ collector.errors # <<>>)

NextCollector ==
    \/ \E type \in ErrorTypes : AddError(type) /\ UNCHANGED beyondCollector
    \/ GetErrorSummary /\ UNCHANGED beyondCollector
    \/ ClearErrors /\ UNCHANGED beyondCollector

\* A collector built with any positive max_errors up to MaxErrorsBound.
InitCollector ==
    /\ ManagerInit
    /\ ClientsInit
    /\ MonitorInit
    /\ GaugesInit
    /\ \E max_errors \in 1..MaxErrorsBound : CollectorInit(max_errors)

SpecCollector == InitCollector /\ [][NextCollector]_vars

Min(a, b) == IF a < b THEN a ELSE b

\* How many records of seq have the type.
CountOf(seq, type) == Cardinality({i \in 1..Len(seq) : seq[i].type = type})

\* C14: after n add_error calls with no clear the detail buffer holds exactly
\* min(n, max_errors) records, the most recently added ones in insertion
\* order, and error_counts[t] is the number of errors of type t ever added.
C14_Bound ==
    /\ Len(collector.errors) = Min(Len(added), collector.max_errors)
    /\ collector.errors = LastOf(added, collector.max_errors)
    /\ \A t \in ErrorTypes :
         IF CountOf(added, t) = 0 THEN t \notin DOMAIN collector.error_counts
         ELSE /\ t \in DOMAIN collector.error_counts
              /\ collector.error_counts[t] = CountOf(added, t)

\* C14 witness: records were evicted from a buffer of several, and both types
\* were counted.
C14_Witness ==
    /\ collector.max_errors = 3
    /\ Len(added) = 5
    /\ Len(collector.errors) = 3
    /\ collector.errors[1].n = 3
    /\ DOMAIN collector.error_counts = ErrorTypes
    /\ collector.error_counts["APIError"] = 4

\* The sum of the per-type counts.
RECURSIVE SumOver(_, _)
SumOver(counts, types) ==
    IF types = {} THEN 0
    ELSE LET t == CHOOSE x \in types : TRUE
         IN  counts[t] + SumOver(counts, types \ {t})

TotalCounted(counts) == SumOver(counts, DOMAIN counts)

\* C15: get_error_summary reports as total the number of errors added since
\* the start or the last clear_errors, which is the sum of the per-type
\* counts, also after evictions; recent_errors are the last
\* min(10, buffer length) records of the buffer in insertion order.
C15_Summary ==
    summary # NoSummary =>
        /\ summary.total_errors = Len(added)
        /\ summary.total_errors = TotalCounted(summary.error_counts)
        /\ summary.recent_errors =
             LastOf(collector.errors, Min(RecentCount, Len(collector.errors)))

\* The parts of C15 that do not depend on evictions.
C15_WithoutEviction ==
    summary # NoSummary =>
        /\ Len(added) <= collector.max_errors => summary.total_errors = Len(added)
        /\ summary.error_counts = collector.error_counts
        /\ summary.recent_errors =
             LastOf(collector.errors, Min(RecentCount, Len(collector.errors)))
        /\ Len(added) > RecentCount /\ collector.max_errors > RecentCount
             => /\ Len(summary.recent_errors) = RecentCount
                /\ summary.recent_errors[RecentCount] = added[Len(added)]

\* ========================================================== HealthMonitor
\* src/src/utils/health_monitor.py: start_monitoring and stop_monitoring run on
\* their callers' threads without a lock, one statement at a time; every
\* started Thread runs _monitoring_loop.

\* Mutant: the warning thresholds are tested before the critical ones.
DetermineHealthStatus_WarningFirst(cpu, memory, disk, error_rate, response_time) ==
    IF \/ cpu >= CpuWarning
       \/ memory >= MemoryWarning
       \/ disk >= DiskWarning
       \/ error_rate >= ErrorRateWarning
       \/ response_time >= ResponseTimeWarning
    THEN "warning"
    ELSE IF \/ cpu >= CpuCritical
            \/ memory >= MemoryCritical
            \/ disk >= DiskCritical
            \/ error_rate >= ErrorRateCritical
            \/ response_time >= ResponseTimeCritical
         THEN "critical"
         ELSE "healthy"

\* HealthMonitor._determine_health_status
DetermineHealthStatus(cpu, memory, disk, error_rate, response_time) ==
    IF \/ cpu >= CpuCritical
       \/ memory >= MemoryCritical
       \/ disk >= DiskCritical
       \/ error_rate >= ErrorRateCritical
       \/ response_time >= ResponseTimeCritical
    THEN "critical"
    ELSE IF \/ cpu >= CpuWarning
            \/ memory >= MemoryWarning
            \/ disk >= DiskWarning
            \/ error_rate >= ErrorRateWarning
            \/ response_time >= ResponseTimeWarning
         THEN "warning"
         ELSE "healthy"

\* The reading the sampler meets: disk usage over its warning threshold.
Readings == {Reading(10, 20, 90, 0, 0)}

\* collect_metrics, except branch: the sample when a metrics source fails.
FailedSample ==
    [cpu |-> 0, memory |-> 0, memory_available_mb |-> 0, disk |-> 0,
     uptime_seconds |-> 0, active_connections |-> 0, error_rate |-> FailedErrorRate,
     response_time |-> 0, status |-> "critical", failed |-> TRUE]

\* HealthMonitor.collect_metrics
CollectMetrics(r, sourceFails) ==
    IF sourceFails THEN FailedSample
    ELSE [cpu |-> r.cpu, memory |-> r.memory, disk |-> r.disk,
          error_rate |-> r.error_rate, response_time |-> r.response_time,
          status |-> DetermineHealthStatus(r.cpu, r.memory, r.disk, r.error_rate,
                                           r.response_time),
          failed |-> FALSE]

\* _monitoring_loop: keep the last max_history samples.
Trim(history) == IF Len(history) > MaxHistory THEN Tail(history) ELSE history

SetCaller(c, pc, target) == callers' = [callers EXCEPT ![c] = [pc |-> pc, target |-> target]]

\* The samples taken so far or being taken.
Samples ==
    Len(monitor.health_history)
    + Cardinality({i \in LoopIds : loops[i].pc \in {"collecting", "collected"}})

\* ---- start_monitoring
\* if self.is_running: return
StartCheck(c) ==
    /\ callers[c].pc = "idle"
    /\ IF monitor.is_running THEN UNCHANGED callers ELSE SetCaller(c, "start_set", 0)
    /\ UNCHANGED <<monitor, loops>>

\* self.is_running = True
StartSetRunning(c) ==
    /\ callers[c].pc = "start_set"
    /\ monitor' = [monitor EXCEPT !.is_running = TRUE]
    /\ SetCaller(c, "start_clear", 0)
    /\ UNCHANGED loops

\* self.stop_event.clear()
StartClearEvent(c) ==
    /\ callers[c].pc = "start_clear"
    /\ monitor' = [monitor EXCEPT !.stop_event = FALSE]
    /\ SetCaller(c, "start_create", 0)
    /\ UNCHANGED loops

\* self.monitor_thread = Thread(target=self._monitoring_loop, daemon=True)
StartCreateThread(c) ==
    /\ callers[c].pc = "start_create"
    /\ \E i \in LoopIds :
         /\ loops[i].pc = "unborn"
         /\ \A j \in LoopIds : j < i => loops[j].pc # "unborn"
         /\ loops' = [loops EXCEPT ![i].pc = "created"]
         /\ monitor' = [monitor EXCEPT !.monitor_thread = i]
    /\ SetCaller(c, "start_thread", 0)

\* self.monitor_thread.start(): a Thread that was started already raises
\* RuntimeError and starts nothing.
StartThread(c) ==
    /\ callers[c].pc = "start_thread"
    /\ loops' = IF loops[monitor.monitor_thread].pc = "created"
                THEN [loops EXCEPT ![monitor.monitor_thread].pc = "entering"]
                ELSE loops
    /\ SetCaller(c, "idle", 0)
    /\ UNCHANGED monitor

\* ---- stop_monitoring
\* if not self.is_running: return
StopCheck(c) ==
    /\ callers[c].pc = "idle"
    /\ IF monitor.is_running THEN SetCaller(c, "stop_clear", 0) ELSE UNCHANGED callers
    /\ UNCHANGED <<monitor, loops>>

\* self.is_running = False
StopClearRunning(c) ==
    /\ callers[c].pc = "stop_clear"
    /\ monitor' = [monitor EXCEPT !.is_running = FALSE]
    /\ SetCaller(c, "stop_signal", 0)
    /\ UNCHANGED loops

\* self.stop_event.set(): the flag is set and the threads blocked in wait are
\* notified.
StopSignal(c) ==
    /\ callers[c].pc = "stop_signal"
    /\ monitor' = [monitor EXCEPT !.stop_event = TRUE]
    /\ loops' = [i \in LoopIds |->
                   IF loops[i].pc = "blocked" THEN [loops[i] EXCEPT !.pc = "woken"]
                   ELSE loops[i]]
    /\ SetCaller(c, "stop_join", 0)

\* if self.monitor_thread: self.monitor_thread.join(timeout=5), up to the
\* point where join blocks; joining a Thread that was not started raises
\* RuntimeError.
StopJoin(c) ==
    /\ callers[c].pc = "stop_join"
    /\ IF monitor.monitor_thread = 0 \/ loops[monitor.monitor_thread].pc = "created"
       THEN SetCaller(c, "idle", 0)
       ELSE SetCaller(c, "joining", monitor.monitor_thread)
    /\ UNCHANGED <<monitor, loops>>

\* join returns because the thread ended.
JoinDone(c) ==
    /\ callers[c].pc = "joining"
    /\ loops[callers[c].target].pc = "done"
    /\ SetCaller(c, "idle", 0)
    /\ UNCHANGED <<monitor, loops>>

\* join returns after its 5 seconds: the thread is still taking a sample, or
\* sleeps through an interval because the flag was cleared again.
JoinTimeout(c) ==
    /\ callers[c].pc = "joining"
    /\ loops[callers[c].target].pc \in {"blocked", "collecting", "collected"}
    /\ SetCaller(c, "idle", 0)
    /\ UNCHANGED <<monitor, loops>>

\* ---- _monitoring_loop
\* Mutant: the loop sleeps through an interval whatever the flag is.
AfterEnter_IgnoresFlag(stop_event) == "blocked"

\* "while not self.stop_event.wait(...)": a set flag ends the loop at once.
AfterEnter(stop_event) == IF stop_event THEN "done" ELSE "blocked"

\* stop_event.wait(check_interval) begins.
EnterWait(i) ==
    /\ loops[i].pc = "entering"
    /\ loops' = [loops EXCEPT ![i].pc = AfterEnter(monitor.stop_event)]
    /\ UNCHANGED <<monitor, callers>>

\* wait returns True to a notified thread: the loop ends.
Exit(i) ==
    /\ loops[i].pc = "woken"
    /\ loops' = [loops EXCEPT ![i].pc = "done"]
    /\ UNCHANGED <<monitor, callers>>

\* wait returns False after check_interval: an iteration begins.
WaitTimeout(i) ==
    /\ loops[i].pc = "blocked"
    /\ Samples < MaxSamples
    /\ loops' = [loops EXCEPT ![i].pc = "collecting"]
    /\ UNCHANGED <<monitor, callers>>

\* metrics = self.collect_metrics()
Collect(i, r, sourceFails) ==
    /\ loops[i].pc = "collecting"
    /\ loops' = [loops EXCEPT ![i] = [pc |-> "collected",
                                      sample |-> CollectMetrics(r, sourceFails)]]
    /\ UNCHANGED <<monitor, callers>>

\* Mutant: an exception of _check_alerts or log_metrics ends the thread.
AfterIteration_Uncaught(raises) == IF raises THEN "crashed" ELSE "entering"

\* Where the loop goes after the body of an iteration: "except Exception"
\* catches what _check_alerts or log_metrics raise.
AfterIteration(raises) == "entering"

\* Mutant: a sample that is ready after stop was signalled is thrown away.
Record_DropsWhenStopped(i, alertRaises) ==
    /\ loops[i].pc = "collected"
    /\ monitor' = [monitor EXCEPT
                     !.health_history =
                        IF monitor.stop_event THEN @
                        ELSE IF Len(@) + 1 > MaxHistory
                             THEN Tail(Append(@, loops[i].sample))
                             ELSE Append(@, loops[i].sample)]
    /\ loops' = [loops EXCEPT ![i] = [pc |-> "entering", sample |-> [status |-> "none"]]]
    /\ UNCHANGED callers

\* health_history.append(metrics), the trim, _check_alerts and log_metrics
Record(i, alertRaises) ==
    /\ loops[i].pc = "collected"
    /\ monitor' = [monitor EXCEPT
                     !.health_history = Trim(Append(@, loops[i].sample))]
    /\ loops' = [loops EXCEPT ![i] = [pc |-> AfterIteration(alertRaises),
                                      sample |-> NoSample]]
    /\ UNCHANGED callers

CallerStep(c) ==
    \/ StartCheck(c) /\ UNCHANGED beyondMonitor
    \/ StartSetRunning(c) /\ UNCHANGED beyondMonitor
    \/ StartClearEvent(c) /\ UNCHANGED beyondMonitor
    \/ StartCreateThread(c) /\ UNCHANGED beyondMonitor
    \/ StartThread(c) /\ UNCHANGED beyondMonitor
    \/ StopCheck(c) /\ UNCHANGED beyondMonitor
    \/ StopClearRunning(c) /\ UNCHANGED beyondMonitor
    \/ StopSignal(c) /\ UNCHANGED beyondMonitor
    \/ StopJoin(c) /\ UNCHANGED beyondMonitor
    \/ JoinDone(c) /\ UNCHANGED beyondMonitor
    \/ JoinTimeout(c) /\ UNCHANGED beyondMonitor

LoopStep(i) ==
    \/ EnterWait(i) /\ UNCHANGED beyondMonitor
    \/ Exit(i) /\ UNCHANGED beyondMonitor
    \/ WaitTimeout(i) /\ UNCHANGED beyondMonitor
    \/ \E r \in Readings : \E sourceFails \in BOOLEAN :
            Collect(i, r, sourceFails) /\ UNCHANGED beyondMonitor
    \/ \E alertRaises \in BOOLEAN : Record(i, alertRaises) /\ UNCHANGED beyondMonitor

\* The sampler with the threads of C calling start and stop.
StepMonitor(C) ==
    \/ \E c \in C : CallerStep(c)
    \/ \E i \in LoopIds : LoopStep(i)

NextMonitor == StepMonitor(Callers)

SpecMonitor == Init /\ [][NextMonitor]_vars

\* The loops inside an iteration.
Sampling == {i \in LoopIds : loops[i].pc \in {"collecting", "collected"}}

\* The loops that will take further samples unless stop is signalled.
Alive == {i \in LoopIds : loops[i].pc \in {"entering", "blocked", "collecting", "collected"}}

\* C16: after any sequence of start_monitoring / stop_monitoring calls at most
\* one monitoring loop is alive, and two loops never sample concurrently.
C16_SingleLoop ==
    /\ Cardinality(Alive) <= 1
    /\ Cardinality(Sampling) <= 1

\* The loops run: a thread that can take a step eventually takes one (in
\* particular every collect_metrics call returns).
SpecMonitorFair == SpecMonitor /\ \A i \in LoopIds : WF_vars(LoopStep(i))

\* The started threads that have not ended.
Running ==
    {i \in LoopIds : loops[i].pc \in {"entering", "blocked", "woken", "collecting", "collected"}}

\* An iteration of loop i begins.
IterationBegins(i) == loops[i].pc # "collecting" /\ loops'[i].pc = "collecting"

\* C17: once stop_monitoring has signalled a running sampler, every loop thread
\* eventually exits unless start_monitoring clears the signal again, and no
\* sampling iteration begins while the signal is set; stop_monitoring on a
\* sampler that is not running goes no further than its check.
C17_Step ==
    /\ \A i \in LoopIds : IterationBegins(i) => ~monitor.stop_event
    /\ \A c \in Callers :
         (callers[c].pc = "idle" /\ callers'[c].pc # "idle" /\ ~monitor.is_running)
         => /\ callers'[c].pc = "start_set"
            /\ UNCHANGED <<monitor, loops>>
    /\ \A c \in Callers :
         (StopCheck(c) /\ ~monitor.is_running) => UNCHANGED <<monitor, loops, callers>>

C17_StopEnds ==
    /\ (monitor.stop_event ~> (~monitor.stop_event \/ Running = {}))
    /\ [][C17_Step]_vars

\* C17 witness: a loop that took a sample was signalled and has ended, no loop
\* runs, and the sampler is stopped.
C17_Witness ==
    /\ monitor.stop_event
    /\ ~monitor.is_running
    /\ Running = {}
    /\ \E i \in LoopIds : loops[i].pc = "done"
    /\ Len(monitor.health_history) > 0
    /\ \A c \in Callers : callers[c].pc = "idle"

\* C19: no failure inside an iteration ends the sampling loop: a failing
\* metrics source gives a sample with status "critical" that is appended to
\* the history, an exception of the alerting or of the metric logging is
\* caught, and after the iteration the loop waits for the next interval; a loop
\* ends only on the stop signal.
C19_Step ==
    \A i \in LoopIds :
        /\ (loops[i].pc = "collecting" /\ loops'[i].pc # "collecting")
           => /\ loops'[i].pc = "collected"
              /\ loops'[i].sample.failed => loops'[i].sample.status = "critical"
        /\ (loops[i].pc = "collected" /\ loops'[i].pc # "collected")
           => /\ loops'[i].pc = "entering"
              /\ Len(monitor'.health_history) = Len(monitor.health_history) + 1
              /\ monitor'.health_history[Len(monitor'.health_history)] = loops[i].sample
        /\ (loops[i].pc = "entering" /\ loops'[i].pc # "entering")
           => loops'[i].pc = IF monitor.stop_event THEN "done" ELSE "blocked"
        /\ (loops[i].pc # "done" /\ loops'[i].pc = "done")
           => monitor.stop_event \/ loops[i].pc = "woken"

C19_NoCrash ==
    \A i \in LoopIds :
        loops[i].pc \in {"unborn", "created", "entering", "blocked", "woken",
                         "collecting", "collected", "done"}

C19_LoopSurvives == [](C19_NoCrash) /\ [][C19_Step]_vars

\* C19 witness: a sample taken while a source failed is in the history as
\* critical, the alerting raised or not, and the same sampler went on to take
\* the next sample.
C19_Witness ==
    /\ Len(monitor.health_history) = 2
    /\ monitor.health_history[1].failed
    /\ monitor.health_history[1].status = "critical"
    /\ ~monitor.health_history[2].failed
    /\ loops[1].pc = "blocked"
    /\ loops[2].pc = "unborn"
    /\ ~monitor.stop_event

\* ============================================== _determine_health_status
\* The values each metric takes: the ends of its range and both sides of its
\* two thresholds.
Around(warning, critical) == {0, warning - 1, warning, critical - 1, critical, 100}

StatusInputs ==
    {Reading(cpu, memory, disk, error_rate, response_time) :
        cpu \in Around(CpuWarning, CpuCritical),
        memory \in Around(MemoryWarning, MemoryCritical),
        disk \in Around(DiskWarning, DiskCritical),
        error_rate \in Around(ErrorRateWarning, ErrorRateCritical),
        response_time \in Around(ResponseTimeWarning, ResponseTimeCritical)}

\* status = self._determine_health_status(...)
Determine ==
    /\ verdict = "none"
    /\ verdict' = DetermineHealthStatus(reading.cpu, reading.memory, reading.disk,
                                        reading.error_rate, reading.response_time)
    /\ UNCHANGED <<reading, alerts>>

\* The alert line of one metric, if any: critical, else warning ("if / elif").
AlertLine(metric, value, warning, critical) ==
    IF value >= critical THEN <<[metric |-> metric, level |-> "critical"]>>
    ELSE IF value >= warning THEN <<[metric |-> metric, level |-> "warning"]>>
    ELSE <<>>

\* HealthMonitor._check_alerts: the alerts list, which is logged line by line.
AlertLines(r) ==
    AlertLine("cpu", r.cpu, CpuWarning, CpuCritical)
    \o AlertLine("memory", r.memory, MemoryWarning, MemoryCritical)
    \o AlertLine("error_rate", r.error_rate, ErrorRateWarning, ErrorRateCritical)

\* self._check_alerts(metrics), for the sample built from the reading and the
\* status _determine_health_status gave.
CheckAlerts ==
    /\ verdict # "none"
    /\ ~alerts.called
    /\ alerts' = [called |-> TRUE, lines |-> AlertLines(reading)]
    /\ UNCHANGED <<reading, verdict>>

NextStatus ==
    \/ Determine /\ UNCHANGED beyondStatus
    \/ CheckAlerts /\ UNCHANGED beyondStatus

InitStatus ==
    /\ ManagerInit
    /\ ClientsInit
    /\ CollectorInit(DefaultMaxErrors)
    /\ MonitorInit
    /\ ApiInit
    /\ RateInit
    /\ \E r \in StatusInputs : StatusInit(r)

SpecStatus == InitStatus /\ [][NextStatus]_vars

\* C18: _determine_health_status returns "critical" iff cpu >= 90 or mem >= 95
\* or disk >= 95 or error_rate >= 15 or rt >= 10; otherwise "warning" iff
\* cpu >= 70 or mem >= 80 or disk >= 85 or error_rate >= 5 or rt >= 5;
\* otherwise "healthy".
C18_Critical ==
    \/ reading.cpu >= 90
    \/ reading.memory >= 95
    \/ reading.disk >= 95
    \/ reading.error_rate >= 15
    \/ reading.response_time >= 10

C18_Warning ==
    \/ reading.cpu >= 70
    \/ reading.memory >= 80
    \/ reading.disk >= 85
    \/ reading.error_rate >= 5
    \/ reading.response_time >= 5

C18_Status ==
    verdict # "none" =>
        /\ verdict = "critical" <=> C18_Critical
        /\ verdict = "warning" <=> (~C18_Critical /\ C18_Warning)
        /\ verdict = "healthy" <=> (~C18_Critical /\ ~C18_Warning)

\* C18 witness: disk alone is at its critical threshold while two other
\* metrics are over their warning thresholds, and the verdict is critical.
C18_Witness ==
    /\ reading = Reading(70, 79, 95, 4, 5)
    /\ verdict = "critical"

\* ======================================================= record_api_call
\* Response times are whole seconds and avg_response_time is the exact
\* quotient, kept as a fraction in lowest terms (the code's floats round it).
Durations == {2, 4, 7}

RECURSIVE Gcd(_, _)
Gcd(a, b) == IF b = 0 THEN a ELSE Gcd(b, a % b)

Fraction(num, den) ==
    IF num = 0 THEN [num |-> 0, den |-> 1]
    ELSE [num |-> num \div Gcd(num, den), den |-> den \div Gcd(num, den)]

\* record_api_call: the APIMetrics of a service seen for the first time.
NewApiMetrics(service) ==
    [service_name |-> service, total_calls |-> 0, successful_calls |-> 0,
     failed_calls |-> 0, avg_response_time |-> Fraction(0, 1)]

\* Mutant: the old average is weighted with the new number of calls.
AverageAfter_WeightsAll(avg, total_calls, response_time) ==
    Fraction(avg.num * total_calls + response_time * avg.den, avg.den * total_calls)

\* (avg_response_time * (total_calls - 1) + response_time) / total_calls
AverageAfter(avg, total_calls, response_time) ==
    Fraction(avg.num * (total_calls - 1) + response_time * avg.den, avg.den * total_calls)

\* The calls recorded so far, over all services.
ApiCalls ==
    LET n(s) == IF s \in DOMAIN api_metrics THEN api_metrics[s].total_calls ELSE 0
    IN  n("anthropic") + n("slack")

\* HealthMonitor.record_api_call
RecordApiCall(service, success, response_time) ==
    /\ ApiCalls < MaxApiCalls
    /\ LET m0 == IF service \in DOMAIN api_metrics THEN api_metrics[service]
                 ELSE NewApiMetrics(service)
           m1 == [m0 EXCEPT !.total_calls = @ + 1]
           m2 == IF success THEN [m1 EXCEPT !.successful_calls = @ + 1]
                 ELSE [m1 EXCEPT !.failed_calls = @ + 1]
       IN  api_metrics' = Put(api_metrics, service,
                              [m2 EXCEPT !.avg_response_time =
                                  AverageAfter(m2.avg_response_time, m2.total_calls,
                                               response_time)])
    /\ recorded' = [recorded EXCEPT ![service] = Append(@, response_time)]

NextApi ==
    \E service \in ApiServices : \E success \in BOOLEAN : \E response_time \in Durations :
        RecordApiCall(service, success, response_time) /\ UNCHANGED beyondApi

SpecApi == Init /\ [][NextApi]_vars

RECURSIVE SumSeq(_)
SumSeq(seq) == IF seq = <<>> THEN 0 ELSE Head(seq) + SumSeq(Tail(seq))

\* C20: after any sequence of record_api_call calls for a service, its
\* avg_response_time is the arithmetic mean of all the durations recorded for
\* it, whatever the success flags were.
C20_Mean ==
    \A s \in ApiServices :
        IF recorded[s] = <<>> THEN s \notin DOMAIN api_metrics
        ELSE /\ s \in DOMAIN api_metrics
             /\ api_metrics[s].total_calls = Len(recorded[s])
             /\ api_metrics[s].avg_response_time.num * Len(recorded[s])
                  = SumSeq(recorded[s]) * api_metrics[s].avg_response_time.den

\* C20 witness: three calls of mixed success for one service with durations
\* 2, 7, 4 (mean 13/3), while another service has its own average.
C20_Witness ==
    /\ recorded["anthropic"] = <<2, 7, 4>>
    /\ api_metrics["anthropic"].avg_response_time = [num |-> 13, den |-> 3]
    /\ api_metrics["anthropic"].failed_calls = 1
    /\ recorded["slack"] = <<4>>

\* ============================================================== error rate
\* The collectors of the process and what the sampler reads: the module's
\* error_collector (error_handler.py, written by log_error_with_context), the
\* agent's own collector (claude_agent.py) and the monitor's own collector
\* (health_monitor.py), which _calculate_error_rate reads and to which no code
\* adds.

\* add_error on the collector c; n stands for the timestamp and message.
Added(c, type, n) ==
    [c EXCEPT !.errors = Evict(Append(@, ErrorInfo(type, n)), c.max_errors),
              !.error_counts = Counted(@, type)]

\* log_error_with_context: error_collector.add_error(error, error_context)
LogErrorWithContext(type) ==
    /\ Len(added) < MaxLogged
    /\ AddError(type)
    /\ rate' = NoRate
    /\ UNCHANGED <<monitor_collector, agent_collector, apiVars>>

\* ClaudeProgrammingAgent: self.error_collector.add_error(error, {...})
AgentAddError(type) ==
    /\ Len(agent_collector.errors) < MaxLogged
    /\ agent_collector' = Added(agent_collector, type, Len(agent_collector.errors) + 1)
    /\ rate' = NoRate
    /\ UNCHANGED <<monitor_collector, collectorVars, apiVars>>

\* The agent records an API call of the service it uses.
AgentRecordApiCall(success) ==
    /\ RecordApiCall("anthropic", success, 2)
    /\ rate' = NoRate
    /\ UNCHANGED <<monitor_collector, agent_collector, collectorVars>>

\* HealthMonitor._calculate_error_rate, as a percentage
ErrorRate(error_collector, total_operations) ==
    IF total_operations = 0 THEN Fraction(0, 1)
    ELSE Fraction(TotalCounted(error_collector.error_counts) * 100, total_operations)

\* collect_metrics: error_rate = self._calculate_error_rate()
CalculateErrorRate ==
    /\ rate' = ErrorRate(monitor_collector, ApiCalls)
    /\ UNCHANGED <<monitor_collector, agent_collector, collectorVars, apiVars>>

NextRate ==
    \/ \E type \in ErrorTypes : LogErrorWithContext(type) /\ UNCHANGED beyondRate
    \/ \E type \in ErrorTypes : AgentAddError(type) /\ UNCHANGED beyondRate
    \/ \E success \in BOOLEAN : AgentRecordApiCall(success) /\ UNCHANGED beyondRate
    \/ CalculateErrorRate /\ UNCHANGED beyondRate

SpecRate == Init /\ [][NextRate]_vars

\* The errors the application has recorded, in either collector.
ErrorsRecorded == Len(added) + Len(agent_collector.errors)

\* C21: the errors the application records through log_error_with_context (the
\* module's collector) or through an agent's collector are the errors the
\* sampler counts: once such an error and at least one API call have been
\* recorded, the error_rate of the next sample is greater than 0.
C21_Counted ==
    rate # NoRate /\ ErrorsRecorded > 0 /\ ApiCalls >= 1 => rate.num > 0

\* ------------------------------------------------------------------ alerts
\* The metrics of a sample that are at or above their warning thresholds.
Breached ==
    {m \in {"cpu", "memory", "disk", "error_rate", "response_time"} :
        \/ m = "cpu" /\ reading.cpu >= CpuWarning
        \/ m = "memory" /\ reading.memory >= MemoryWarning
        \/ m = "disk" /\ reading.disk >= DiskWarning
        \/ m = "error_rate" /\ reading.error_rate >= ErrorRateWarning
        \/ m = "response_time" /\ reading.response_time >= ResponseTimeWarning}

\* The alert lines logged for the metric.
LinesOf(m) == {k \in 1..Len(alerts.lines) : alerts.lines[k].metric = m}

\* C22: for every sample the loop appends, one alert line is logged for each
\* of the five metrics (cpu, memory, disk, error_rate, avg_response_time)
\* that is at or above its warning threshold; in particular a sample that is
\* "warning" or "critical" produces at least one alert.
C22_Alerts ==
    alerts.called =>
        /\ \A m \in Breached : Cardinality(LinesOf(m)) = 1
        /\ verdict \in {"warning", "critical"} => alerts.lines # <<>>

\* What holds of the code: one line for each of cpu, memory and error_rate
\* that is at or above its warning threshold, and no other line.
C22_ThreeMetrics ==
    alerts.called =>
        \A m \in {"cpu", "memory", "disk", "error_rate", "response_time"} :
            Cardinality(LinesOf(m)) =
                IF m \in Breached \cap {"cpu", "memory", "error_rate"} THEN 1 ELSE 0

\* ========================================================== health history
\* _monitoring_loop statement by statement, from the point where the history
\* is one sample short of max_history.  A sample carries its timestamp, the
\* ordinal of its production.  One loop is alive, or two: the two Threads
\* that two racing start_monitoring calls create (SpecMonitor reaches that
\* state, see C16).

\* HealthMetrics(timestamp = datetime.now().isoformat(), ...)
Stamped(sample, n) == ("timestamp" :> n) @@ sample

\* The history after n iterations of the loops.
Filled(n) == [k \in 1..n |-> Stamped(CollectMetrics(Reading(10, 20, 90, 0, 0), FALSE), k)]

\* The samples the loops hold, produced and not appended yet.
InHand == {i \in LoopIds : loops[i].pc = "collected"}

\* The samples produced so far.
Produced ==
    LET stamps == {monitor.health_history[k].timestamp : k \in 1..Len(monitor.health_history)}
                  \cup {loops[i].sample.timestamp : i \in InHand}
    IN  CHOOSE n \in stamps : \A m \in stamps : m <= n

InitHistory ==
    /\ ManagerInit
    /\ ClientsInit
    /\ CollectorInit(DefaultMaxErrors)
    /\ GaugesInit
    /\ monitor = [is_running |-> TRUE, stop_event |-> FALSE, monitor_thread |-> MaxLoops,
                  health_history |-> Filled(MaxHistory - 1)]
    /\ \E alive \in {1..n : n \in LoopIds} :
         loops = [i \in LoopIds |-> [pc |-> IF i \in alive THEN "blocked" ELSE "unborn",
                                     sample |-> NoSample]]
    /\ callers = [c \in Callers |-> [pc |-> "idle", target |-> 0]]

\* wait returns False after check_interval: an iteration begins.
BeginIteration(i) ==
    /\ loops[i].pc = "blocked"
    /\ Produced + Cardinality({j \in LoopIds : loops[j].pc = "collecting"})
         < MaxHistory - 1 + MaxFurther
    /\ loops' = [loops EXCEPT ![i].pc = "collecting"]
    /\ UNCHANGED <<monitor, callers>>

\* metrics = self.collect_metrics()
Produce(i, r, sourceFails) ==
    /\ loops[i].pc = "collecting"
    /\ loops' = [loops EXCEPT ![i] =
                   [pc |-> "collected",
                    sample |-> Stamped(CollectMetrics(r, sourceFails), Produced + 1)]]
    /\ UNCHANGED <<monitor, callers>>

\* self.health_history.append(metrics)
AppendSample(i) ==
    /\ loops[i].pc = "collected"
    /\ monitor' = [monitor EXCEPT !.health_history = Append(@, loops[i].sample)]
    /\ loops' = [loops EXCEPT ![i] = [pc |-> "appended", sample |-> NoSample]]
    /\ UNCHANGED callers

\* if len(self.health_history) > self.max_history: self.health_history.pop(0)
TrimHistory(i) ==
    /\ loops[i].pc = "appended"
    /\ monitor' = [monitor EXCEPT !.health_history = Trim(@)]
    /\ loops' = [loops EXCEPT ![i].pc = "trimmed"]
    /\ UNCHANGED callers

\* _check_alerts and log_metrics; the iteration is complete.
FinishIteration(i, alertRaises) ==
    /\ loops[i].pc = "trimmed"
    /\ loops' = [loops EXCEPT ![i].pc = AfterIteration(alertRaises)]
    /\ UNCHANGED <<monitor, callers>>

NextHistory ==
    \/ \E i \in LoopIds : EnterWait(i) /\ UNCHANGED beyondMonitor
    \/ \E i \in LoopIds : BeginIteration(i) /\ UNCHANGED beyondMonitor
    \/ \E i \in LoopIds : \E r \in Readings : \E sourceFails \in BOOLEAN :
            Produce(i, r, sourceFails) /\ UNCHANGED beyondMonitor
    \/ \E i \in LoopIds : AppendSample(i) /\ UNCHANGED beyondMonitor
    \/ \E i \in LoopIds : TrimHistory(i) /\ UNCHANGED beyondMonitor
    \/ \E i \in LoopIds : \E alertRaises \in BOOLEAN :
            FinishIteration(i, alertRaises) /\ UNCHANGED beyondMonitor

SpecHistory == InitHistory /\ [][NextHistory]_vars

\* The history holds at most max_history samples, the most recently appended
\* ones, in the order of their production.
Bounded ==
    LET h == monitor.health_history
    IN  /\ Len(h) <= MaxHistory
        /\ \A k \in 1..(Len(h) - 1) : h[k].timestamp < h[k + 1].timestamp
        /\ \A n \in 1..Produced :
              (\E k \in 1..Len(h) : h[k].timestamp = n)
                  <=> /\ n > Produced - Cardinality(InHand) - Len(h)
                      /\ \A i \in InHand : loops[i].sample.timestamp # n

\* C23: after every completed iteration of the sampling loop the history
\* holds at most max_history (100) samples, and they are the most recently
\* produced ones in production order (the oldest are evicted first).
C23_History ==
    (\E i \in LoopIds : loops[i].pc = "entering") => Bounded

\* C23 holds while a single loop is alive.
C23_OneLoop ==
    (\E i \in LoopIds : loops[i].pc = "entering") /\ loops[MaxLoops].pc = "unborn"
        => Bounded

\* ------------------------------------------------------------ clear_errors
\* C24: clear_errors leaves the collector with an empty detail buffer and an
\* empty per-type count map, so that a following get_error_summary reports
\* zero errors and the add_error calls after it count from zero.
C24_Clear ==
    /\ added = <<>> =>
          /\ collector.errors = <<>>
          /\ collector.error_counts = Empty
          /\ summary # NoSummary =>
                /\ summary.total_errors = 0
                /\ summary.error_counts = Empty
                /\ summary.recent_errors = <<>>
    /\ cleared =>
          \A t \in ErrorTypes :
              IF CountOf(added, t) = 0 THEN t \notin DOMAIN collector.error_counts
              ELSE /\ t \in DOMAIN collector.error_counts
                   /\ collector.error_counts[t] = CountOf(added, t)

\* C24 witness: recorded errors were cleared, one error was added since, and
\* the summary counts that one error.
C24_Witness ==
    /\ cleared
    /\ Len(added) = 1
    /\ summary # NoSummary
    /\ summary.total_errors = 1
    /\ summary.error_counts = [t \in {"APIError"} |-> 1]

\* C24 second witness: the summary taken right after a clear.
C24_EmptySummary ==
    /\ cleared
    /\ added = <<>>
    /\ summary # NoSummary
    /\ summary.total_errors = 0

\* ------------------------------------------------------ recovery boundary
\* The call was refused by the breaker: ServiceUnavailableError raised by
\* CircuitBreaker.call itself, the operation not invoked.
ShortCircuited ==
    /\ last'.opCalls = 0
    /\ last'.brk.kind = "raised"
    /\ last'.brk.value.exc = "ServiceUnavailableError"
    /\ last'.brk.value.by = "breaker"

\* C25: a call on a FAILED breaker is short-circuited if and only if
\* now - last_failure_time < recovery_time; when the elapsed time is exactly
\* recovery_time the breaker goes to RECOVERING and the operation is invoked.
C25_Step ==
    \A c \in Calls :
        LET n == c[1] IN
        (/\ Called(c)
         /\ Registered(n)
         /\ services[n].status = FAILED)
        => /\ ShortCircuited <=> Elapsed(n) < Cfg(n).recovery_time
           /\ Elapsed(n) = Cfg(n).recovery_time =>
                /\ last'.during = RECOVERING
                /\ last'.opCalls = 1

C25_Boundary == [][C25_Step]_vars

\* What holds of the code: the call is short-circuited if and only if
\* now - last_failure_time <= recovery_time.
C25_StrictStep ==
    \A c \in Calls :
        LET n == c[1] IN
        (/\ Called(c)
         /\ Registered(n)
         /\ services[n].status = FAILED)
        => /\ ShortCircuited <=> Elapsed(n) <= Cfg(n).recovery_time
           /\ ~ShortCircuited => last'.during = RECOVERING /\ last'.opCalls = 1

C25_StrictBoundary == [][C25_StrictStep]_vars

\* ================================================== threads and the locks
\* The manager used by two threads, statement by statement where the code
\* holds no lock that would keep the other thread out.  CircuitBreaker.call
\* writes its breaker under the breaker's lock; mark_service_unavailable
\* writes the same three fields under the manager's lock; the membership
\* tests of mark_service_unavailable and is_service_available hold no lock.
\* A thread whose breaker register_service replaced goes on with the old
\* object (orphan), which the registry no longer holds.

\* The config registered explicitly: two failures trip, one second to recover.
RaceConfigs == {ServiceConfig("llm", 2, DefaultFailureWindow, 1, TRUE)}

\* The operations the threads call: no arguments of interest.
RaceOperations == {op \in Operations : op.args = "args1" /\ op.raises # "ServiceUnavailableError"}

\* Thread t inside an operation on name, at pc.
At(pc, name) == [NoCall EXCEPT !.pc = pc, !.name = name]

\* The positions inside CircuitBreaker.call.
CallPcs == {"running", "succeeding", "failing"}

\* The frames after the breaker of name was replaced in the registry.
Orphaned(name) ==
    [t \in Threads |->
        IF calls[t].pc \in CallPcs /\ calls[t].name = name
        THEN [calls[t] EXCEPT !.orphan = TRUE] ELSE calls[t]]

\* register_service(config), called by the application: under the manager's lock.
RaceRegister(t, config) ==
    /\ calls[t].pc = "idle"
    /\ lock = "free"
    /\ services' = Put(services, config.name, NewCircuitBreaker(config))
    /\ calls' = Orphaned(config.name)
    /\ breaker_lock' = [breaker_lock EXCEPT ![config.name] = "free"]
    /\ marked' = [marked EXCEPT ![config.name] = FALSE]
    /\ fails' = [fails EXCEPT ![config.name] = 0]
    /\ last' = Done("register_service", config.name)
    /\ UNCHANGED <<fallback_handlers, now, lock>>

\* call_service up to the point where func starts: the first locked block of
\* CircuitBreaker.call.
RaceEnter(t, name, op) ==
    /\ name \in DOMAIN services => breaker_lock[name] = "free"
    /\ CallEnter(t, name, op, FALSE)
    /\ marked' = IF name \in DOMAIN services /\ services[name].status = FAILED
                     /\ ~Refused(services[name], now)
                  THEN [marked EXCEPT ![name] = FALSE] ELSE marked
    /\ UNCHANGED <<lock, breaker_lock>>

\* func returned; "with self.lock:" and self.failure_count = 0
SuccessBegin(t) ==
    /\ calls[t].pc = "running"
    /\ LET c == calls[t] IN
       IF c.orphan
       THEN UNCHANGED <<services, breaker_lock>>
       ELSE /\ breaker_lock[c.name] = "free"
            /\ breaker_lock' = [breaker_lock EXCEPT ![c.name] = t]
            /\ services' = [services EXCEPT ![c.name].failure_count = 0]
    /\ calls' = [calls EXCEPT ![t].pc = "succeeding"]
    /\ UNCHANGED <<fallback_handlers, now, last, fails, lock, marked>>

\* self.status = ServiceStatus.HEALTHY, the lock released, return result
SuccessEnd(t) ==
    /\ calls[t].pc = "succeeding"
    /\ LET c == calls[t] IN
       /\ IF c.orphan
          THEN UNCHANGED <<services, breaker_lock, fails>>
          ELSE /\ services' = [services EXCEPT ![c.name].status = HEALTHY]
               /\ breaker_lock' = [breaker_lock EXCEPT ![c.name] = "free"]
               /\ fails' = [fails EXCEPT ![c.name] = 0]
       /\ marked' = [marked EXCEPT ![c.name] = FALSE]
       /\ last' = LET res == Invoke([raises |-> "none", args |-> c.args])
                  IN  Result("call_service", c.name, res, res, 1, 0, c.during)
    /\ calls' = [calls EXCEPT ![t] = NoCall]
    /\ UNCHANGED <<fallback_handlers, now, lock>>

\* func raised; "with self.lock:", self.failure_count += 1 and
\* self.last_failure_time = time.time()
FailureBegin(t) ==
    /\ calls[t].pc = "running"
    /\ LET c == calls[t] IN
       IF c.orphan
       THEN UNCHANGED <<services, breaker_lock>>
       ELSE /\ breaker_lock[c.name] = "free"
            /\ breaker_lock' = [breaker_lock EXCEPT ![c.name] = t]
            /\ services' = [services EXCEPT ![c.name].failure_count = @ + 1,
                                            ![c.name].last_failure_time = now]
    /\ calls' = [calls EXCEPT ![t].pc = "failing"]
    /\ UNCHANGED <<fallback_handlers, now, last, fails, lock, marked>>

\* "if self.failure_count >= self.config.max_failures" and the status it
\* chooses, the lock released, raise e (no fallback is registered)
FailureEnd(t) ==
    /\ calls[t].pc = "failing"
    /\ LET c == calls[t] IN
       /\ IF c.orphan
          THEN UNCHANGED <<services, breaker_lock, fails>>
          ELSE /\ services' = [services EXCEPT ![c.name].status =
                                  StatusAfterFailure(services[c.name].failure_count,
                                                     services[c.name].config.max_failures)]
               /\ breaker_lock' = [breaker_lock EXCEPT ![c.name] = "free"]
               /\ fails' = [fails EXCEPT ![c.name] = @ + 1]
       /\ last' = LET res == Invoke([raises |-> "OperationError", args |-> c.args])
                  IN  Result("call_service", c.name, res, res, 1, 0, c.during)
    /\ calls' = [calls EXCEPT ![t] = NoCall]
    /\ UNCHANGED <<fallback_handlers, now, lock, marked>>

\* "if service_name not in self.services" of mark_service_unavailable and of
\* is_service_available (op is "mark" or "avail")
LazyCheck(t, op, name) ==
    /\ calls[t].pc = "idle"
    /\ calls' = [calls EXCEPT ![t] =
                   At(IF name \in DOMAIN services THEN op ELSE op \o "_register", name)]
    /\ UNCHANGED <<managerVars, lockVars>>

\* self.register_service(config) with the default config, on the lazy paths
LazyRegister(t, op) ==
    /\ calls[t].pc = op \o "_register"
    /\ lock = "free"
    /\ LET name == calls[t].name IN
       /\ services' = Put(services, name, NewCircuitBreaker(DefaultConfig(name)))
       /\ calls' = [Orphaned(name) EXCEPT ![t].pc = op]
       /\ breaker_lock' = [breaker_lock EXCEPT ![name] = "free"]
       /\ fails' = [fails EXCEPT ![name] = 0]
    /\ UNCHANGED <<fallback_handlers, now, last, lock, marked>>

\* "with self.lock:" and self.services[service_name].status = FAILED
MarkStatus(t) ==
    /\ calls[t].pc = "mark"
    /\ lock = "free"
    /\ lock' = t
    /\ services' = [services EXCEPT ![calls[t].name].status = FAILED]
    /\ calls' = [calls EXCEPT ![t].pc = "mark_count"]
    /\ UNCHANGED <<fallback_handlers, now, last, fails, breaker_lock, marked>>

\* self.services[service_name].failure_count = ...config.max_failures
MarkCount(t) ==
    /\ calls[t].pc = "mark_count"
    /\ services' = [services EXCEPT ![calls[t].name].failure_count =
                                       services[calls[t].name].config.max_failures]
    /\ calls' = [calls EXCEPT ![t].pc = "mark_time"]
    /\ UNCHANGED <<fallback_handlers, now, last, fails, lockVars>>

\* self.services[service_name].last_failure_time = time.time(), the manager's
\* lock released, return
MarkTime(t) ==
    /\ calls[t].pc = "mark_time"
    /\ services' = [services EXCEPT ![calls[t].name].last_failure_time = now]
    /\ lock' = "free"
    /\ marked' = [marked EXCEPT ![calls[t].name] = TRUE]
    /\ last' = Done("mark_service_unavailable", calls[t].name)
    /\ calls' = [calls EXCEPT ![t] = NoCall]
    /\ UNCHANGED <<fallback_handlers, now, fails, breaker_lock>>

\* circuit_breaker = self.services[service_name]; return circuit_breaker.status in [...]
AvailRead(t) ==
    /\ calls[t].pc = "avail"
    /\ last' = Result("is_service_available", calls[t].name,
                      Returned([bool |-> services[calls[t].name].status \in AvailableStatuses]),
                      NoOutcome, 0, 0, "none")
    /\ calls' = [calls EXCEPT ![t] = NoCall]
    /\ UNCHANGED <<services, fallback_handlers, now, fails, lockVars>>

StepRace(t) ==
    \/ Tick /\ UNCHANGED beyondManager
    \/ \E c \in RaceConfigs : RaceRegister(t, c) /\ UNCHANGED beyondRace
    \/ \E n \in Driven : \E op \in RaceOperations : RaceEnter(t, n, op) /\ UNCHANGED beyondRace
    \/ SuccessBegin(t) /\ UNCHANGED beyondRace
    \/ SuccessEnd(t) /\ UNCHANGED beyondRace
    \/ FailureBegin(t) /\ UNCHANGED beyondRace
    \/ FailureEnd(t) /\ UNCHANGED beyondRace
    \/ \E n \in Driven : \E op \in {"mark", "avail"} : LazyCheck(t, op, n) /\ UNCHANGED beyondRace
    \/ \E op \in {"mark", "avail"} : LazyRegister(t, op) /\ UNCHANGED beyondRace
    \/ MarkStatus(t) /\ UNCHANGED beyondRace
    \/ MarkCount(t) /\ UNCHANGED beyondRace
    \/ MarkTime(t) /\ UNCHANGED beyondRace
    \/ AvailRead(t) /\ UNCHANGED beyondRace

NextRace == \E t \in Threads : StepRace(t)

SpecRace == Init /\ [][NextRace]_vars

\* The step belongs to a CircuitBreaker.call of thread t.
ByCall(t) ==
    /\ calls[t].pc # calls'[t].pc
    /\ calls[t].pc \in CallPcs \/ calls'[t].pc \in CallPcs

\* The status changes the breaker's state machine has.
Transitions ==
    {<<HEALTHY, DEGRADED>>, <<HEALTHY, FAILED>>, <<DEGRADED, FAILED>>,
     <<DEGRADED, HEALTHY>>, <<FAILED, RECOVERING>>, <<RECOVERING, HEALTHY>>,
     <<RECOVERING, FAILED>>}

\* C26: in every behaviour, concurrent calls on the same breaker included,
\* each status change CircuitBreaker.call makes is one of HEALTHY->DEGRADED,
\* HEALTHY->FAILED, DEGRADED->FAILED, DEGRADED->HEALTHY, FAILED->RECOVERING,
\* RECOVERING->HEALTHY, RECOVERING->FAILED; a success never moves a breaker
\* from FAILED to HEALTHY.
C26_Step ==
    \A t \in Threads : \A n \in DOMAIN services :
        (ByCall(t) /\ services'[n].status # services[n].status)
        => <<services[n].status, services'[n].status>> \in Transitions

C26_Transitions == [][C26_Step]_vars

\* Thread t ends the failure bookkeeping of a call on the registered breaker.
FailureRecorded(t) ==
    /\ calls[t].pc = "failing"
    /\ calls'[t].pc = "idle"
    /\ ~calls[t].orphan

\* C27: whenever an operation fails while its breaker's status is RECOVERING
\* the resulting status is FAILED, never DEGRADED, whatever max_failures is.
C27_Step ==
    \A t \in Threads :
        (FailureRecorded(t) /\ services[calls[t].name].status = RECOVERING)
        => services'[calls[t].name].status = FAILED

C27_ProbeFails == [][C27_Step]_vars

\* What C27 relies on: failure_count >= max_failures in every RECOVERING state.
C27_Counted ==
    \A n \in DOMAIN services :
        services[n].status = RECOVERING
            => services[n].failure_count >= services[n].config.max_failures

\* HEALTHY implies failure_count = 0 and FAILED implies
\* failure_count >= max_failures.
BreakerInvariant(b) ==
    /\ b.status = HEALTHY => b.failure_count = 0
    /\ b.status = FAILED => b.failure_count >= b.config.max_failures

\* C28: every write to a breaker's status, failure_count and
\* last_failure_time is made under that breaker's own lock, so that in every
\* reachable state in which the breaker's lock is free the breaker invariant
\* holds, also when mark_service_unavailable interleaves with a call on the
\* same breaker that completes.
C28_LockedWrites ==
    \A n \in DOMAIN services :
        breaker_lock[n] = "free" => BreakerInvariant(services[n])

\* C28 restricted to the states in which no thread is inside the locked block
\* of mark_service_unavailable.
C28_AtRest ==
    (\A t \in Threads : calls[t].pc \notin {"mark_count", "mark_time"})
        => C28_LockedWrites

\* Thread t's is_service_available returns.
AvailReturns(t) == calls[t].pc = "avail" /\ calls'[t].pc = "idle"

\* C29: once mark_service_unavailable(name) has returned,
\* is_service_available(name) returns false until a call on the service
\* succeeds (or is admitted as a recovery probe) or the service is registered
\* again explicitly, also when the name was unknown and concurrent
\* is_service_available or mark_service_unavailable calls register it lazily
\* at the same time.
C29_Step ==
    \A t \in Threads :
        (AvailReturns(t) /\ marked[calls[t].name]) => ~last'.out.value.bool

C29_StaysUnavailable == [][C29_Step]_vars

\* ------------------------------------------------ register_service again
\* The configs a name is registered with and registered again with.
ReplaceConfigs ==
    RaceConfigs \cup {ServiceConfig("llm", 1, DefaultFailureWindow, 2, FALSE)}

\* One thread inside call_service while the name is registered, given a
\* fallback, marked and registered again.
NextReplace ==
    \/ Tick /\ UNCHANGED beyondManager
    \/ \E c \in ReplaceConfigs : RegisterServiceInFlight(c) /\ UNCHANGED beyondFlight
    \/ \E n \in Driven : \E f \in FallbackIds : RegisterFallback(n, f) /\ UNCHANGED beyondManager
    \/ \E n \in Driven : MarkServiceUnavailable(n) /\ UNCHANGED beyondManager
    \/ \E t \in Flying : \E n \in Driven : \E op \in Operations : \E fbRaises \in BOOLEAN :
            CallEnter(t, n, op, fbRaises) /\ UNCHANGED beyondFlight
    \/ \E t \in Flying : \E raises \in {"none"} \cup OperationErrors : \E fbRaises \in BOOLEAN :
            CallReturn(t, raises, fbRaises) /\ UNCHANGED beyondFlight

SpecReplace == Init /\ [][NextReplace]_vars

\* C30: register_service(config) for a name that has a breaker replaces it
\* with a fresh breaker (HEALTHY, failure_count 0) whatever the old state was,
\* FAILED inside its recovery window included; the fallback registered for
\* the name is kept; and the outcome of an operation that was in flight on
\* the old breaker does not change the new breaker.
C30_Step ==
    /\ \A n \in Driven : \A c \in ReplaceConfigs :
          (/\ last'.op = "register_service"
           /\ RegisterServiceInFlight(c)
           /\ Registered(n))
          => /\ services'[n] = NewCircuitBreaker(c)
             /\ services'[n].status = HEALTHY
             /\ services'[n].failure_count = 0
             /\ fallback_handlers' = fallback_handlers
    /\ \A t \in Threads :
          (calls[t].pc = "running" /\ calls[t].orphan /\ calls'[t].pc = "idle")
          => services' = services

C30_Replaces == [][C30_Step]_vars

\* C30 witness: an operation that was in flight when its name was registered
\* again has failed, and the new breaker is as register_service built it; the
\* name has its fallback.
C30_Witness ==
    /\ last.op = "call_service"
    /\ last.name = "llm"
    /\ last.opCalls = 1
    /\ last.brk.kind = "raised"
    /\ Registered("llm")
    /\ services["llm"] = NewCircuitBreaker(Cfg("llm"))
    /\ "llm" \in DOMAIN fallback_handlers

\* ================================================= stop during a collection
\* stop_monitoring is called while the loop thread is inside collect_metrics:
\* the caller has passed "if not self.is_running" and the first Thread is in
\* its first iteration.
StopCalledInFlight ==
    /\ monitor = [is_running |-> TRUE, stop_event |-> FALSE, monitor_thread |-> 1,
                  health_history |-> <<>>]
    /\ loops = [i \in LoopIds |->
                  [pc |-> IF i = 1 THEN "collecting" ELSE "unborn", sample |-> NoSample]]
    /\ callers = [c \in Callers |->
                    [pc |-> IF c = "c1" THEN "stop_clear" ELSE "idle", target |-> 0]]

\* The sampler reaches that state from its construction (SpecMonitor).
InitStop ==
    /\ ManagerInit
    /\ ClientsInit
    /\ CollectorInit(DefaultMaxErrors)
    /\ GaugesInit
    /\ StopCalledInFlight

\* The caller of stop_monitoring goes on, and may start and stop the sampler
\* again; no second thread calls in.
NextStop == StepMonitor({"c1"})

SpecStop == InitStop /\ [][NextStop]_vars

\* The loop threads run; the callers of start and stop need not.
SpecStopFair == SpecStop /\ \A i \in LoopIds : WF_vars(LoopStep(i))

\* C31 (step): collect_metrics hands the loop a sample whatever the stop flag
\* is, and the loop appends the sample it holds as the newest element of
\* health_history whether stop was signalled, whether the sampler counts as
\* running and wherever the caller of stop_monitoring is.
C31_Step ==
    \A i \in LoopIds :
        /\ (loops[i].pc = "collecting" /\ loops'[i].pc # "collecting")
           => /\ loops'[i].pc = "collected"
              /\ loops'[i].sample # NoSample
              /\ monitor'.health_history = monitor.health_history
        /\ (loops[i].pc = "collected" /\ loops'[i].pc # "collected")
           => monitor'.health_history = Append(monitor.health_history, loops[i].sample)

\* C31: a sample whose collection was under way when stop_monitoring was
\* called is not discarded: the collection finishes and the sample is appended
\* to the health history, whether or not the join of stop_monitoring has timed
\* out and returned by then.
C31_InFlightKept ==
    /\ \A i \in LoopIds : (loops[i].pc \in {"collecting", "collected"}) ~> (loops[i].pc = "entering")
    /\ [][C31_Step]_vars

\* C31 witness: the sample that was being collected when stop_monitoring was
\* called is in the history, appended after the stop signal was set and after
\* the join had timed out and stop_monitoring had returned (the thread joined
\* has not ended, no other thread was created).
C31_Witness ==
    /\ Len(monitor.health_history) = 1
    /\ loops[1].pc = "entering"
    /\ \A i \in LoopIds : i # 1 => loops[i].pc = "unborn"
    /\ monitor.stop_event
    /\ ~monitor.is_running
    /\ callers["c1"].pc = "idle"
    /\ callers["c2"].pc = "idle"

\* ------------------------------------------- the sample of a failed collection
\* The numeric fields of HealthMetrics.
NumericFields ==
    {"cpu", "memory", "memory_available_mb", "disk", "uptime_seconds",
     "active_connections", "error_rate", "response_time"}

\* The samples collect_metrics has handed to a loop: those in the history and
\* those a loop holds before its append.
Taken ==
    {monitor.health_history[k] : k \in 1..Len(monitor.health_history)}
    \cup {loops[i].sample : i \in {j \in LoopIds : loops[j].pc = "collected"}}

\* C32: the sample produced when metric collection fails has status
\* "critical" and every numeric field (cpu, memory, available memory, disk,
\* uptime, active connections, error_rate, average response time) equal to
\* zero.
C32_Zeroed ==
    \A s \in Taken :
        s.failed => /\ s.status = "critical"
                    /\ \A f \in NumericFields : s[f] = 0

\* What the code gives instead: status "critical", error_rate 100 and every
\* other numeric field zero.
C32_CriticalFullRate ==
    \A s \in Taken :
        s.failed => /\ s.status = "critical"
                    /\ s.error_rate = FailedErrorRate
                    /\ \A f \in NumericFields \ {"error_rate"} : s[f] = 0

\* ======================================================= the agent's services
\* src/src/utils/graceful_degradation.py, setup_default_services: the configs
\* and the fallbacks initialize() registers.
DefaultServices ==
    {ServiceConfig("anthropic", 3, 300, 60, TRUE),
     ServiceConfig("slack", 5, 180, 30, TRUE),
     ServiceConfig("code_analysis", 2, 120, 45, TRUE),
     ServiceConfig("code_generation", 2, 120, 45, TRUE)}

DefaultFallbacks ==
    [anthropic |-> "anthropic_fallback", slack |-> "slack_fallback",
     code_analysis |-> "code_analysis_fallback",
     code_generation |-> "code_generation_fallback"]

\* The names the decorators of ClaudeProgrammingAgent pass to
\* with_graceful_degradation (execute_tool, analyze_request, process_request:
\* "anthropic_api"; generate_code: "code_generator"; analyze_code:
\* "code_analyzer"); none of them passes an inline fallback.
WrapperNames == {"anthropic_api", "code_generator", "code_analyzer"}

\* setup_default_services: register_service and register_fallback for each
\* default service.
SetupDefaultServices ==
    /\ services' = [n \in DOMAIN services \cup {c.name : c \in DefaultServices} |->
                      IF \E c \in DefaultServices : c.name = n
                      THEN NewCircuitBreaker(CHOOSE c \in DefaultServices : c.name = n)
                      ELSE services[n]]
    /\ fallback_handlers' = [n \in DOMAIN fallback_handlers \cup DOMAIN DefaultFallbacks |->
                               IF n \in DOMAIN DefaultFallbacks THEN DefaultFallbacks[n]
                               ELSE fallback_handlers[n]]

\* GracefulDegradation.initialize
Initialize ==
    /\ IF ~initialized
       THEN SetupDefaultServices /\ initialized' = TRUE
       ELSE UNCHANGED <<services, fallback_handlers, initialized>>
    /\ last' = Done("initialize", "")
    /\ UNCHANGED <<now, fails>>

\* The application: main initializes the manager, and the agent's wrapped
\* methods are called.
NextAgent ==
    \/ Tick /\ UNCHANGED beyondManager
    \/ Initialize
       /\ wrapped' = NoWrapped
       /\ UNCHANGED <<calls, collectorVars, monitorVars, statusVars, apiVars, rateVars,
                      lockVars, retry, recorders, stack>>
    \/ \E n \in WrapperNames : \E op \in Operations :
            WrappedCall(n, op, FALSE, "none", FALSE) /\ UNCHANGED beyondWrapper

SpecAgent == Init /\ [][NextAgent]_vars

\* C33: after initialize(), every service name the agent's wrappers use is a
\* key of the service registry, so each wrapped outbound call is delegated to
\* a CircuitBreaker and not made on the unregistered pass-through path.
C33_Delegated ==
    initialized =>
        /\ \A n \in WrapperNames : n \in DOMAIN services
        /\ wrapped # NoWrapped => last.brk # NoOutcome

\* What the code gives instead: initialize() registers four names, none of
\* them a name the wrappers use, and every wrapped call is made directly:
\* no breaker sees it and no fallback answers for it.
C33_PassThrough ==
    initialized =>
        /\ DOMAIN services = {"anthropic", "slack", "code_analysis", "code_generation"}
        /\ DOMAIN fallback_handlers = DOMAIN services
        /\ \A n \in DOMAIN services : services[n] \in {NewCircuitBreaker(c) : c \in DefaultServices}
        /\ wrapped # NoWrapped
           => /\ last.brk = NoOutcome
              /\ last.fbCalls = 0
              /\ last.opCalls = 1
              /\ wrapped.out = last.out

\* =========================================== retry_on_failure, safe_execute
\* src/src/utils/error_handler.py.  The exception classes the decorated
\* functions raise (subclasses of AgentError, itself an Exception) and the
\* exceptions tuples retry_on_failure is given: the default (Exception,) and a
\* tuple naming one class.
RaisedClasses == {"ValidationError", "ProcessingError"}
ExceptionTuples == {{"Exception"}, {"ValidationError"}}

\* What one invocation of the decorated function gives.
RawOutcomes == {Returned("value")} \cup {Raised(e) : e \in RaisedClasses}

\* Mutant: "except exceptions" catches every exception.
Matches_Any(e, exceptions) == TRUE

\* "except exceptions as e": e is an instance of a class of the tuple.
Matches(e, exceptions) == e \in exceptions \/ "Exception" \in exceptions

\* Mutant: safe_execute re-raises whatever raise_on_error is.
SafeExecute_Reraises(raw, raise_on_error) == raw

\* The wrapper of safe_execute around one invocation: "except Exception"
\* gives fallback_value unless raise_on_error.
SafeExecute(raw, raise_on_error) ==
    IF raw.kind = "raised" /\ ~raise_on_error THEN Returned("fallback_value") ELSE raw

\* What retry_on_failure decorates: the function itself ("none"), or the
\* function under safe_execute with raise_on_error False ("absorb") or True
\* ("reraise").
Inners == {"none", "absorb", "reraise"}

\* What the retry layer sees of one invocation.
Seen(raw, inner) == IF inner = "none" THEN raw ELSE SafeExecute(raw, inner = "reraise")

\* if attempt == max_attempts - 1
LastAttempt(attempt, max_attempts) == attempt = max_attempts - 1

\* The decorated callable is called: the wrapper of retry_on_failure starts
\* its loop.
RetryEnter(max_attempts, exceptions, on_retry, inner) ==
    /\ retry.pc \in {"idle", "done"}
    /\ retry' = [pc |-> "trying", max_attempts |-> max_attempts, exceptions |-> exceptions,
                 on_retry |-> on_retry, inner |-> inner, attempt |-> 0, attempts |-> <<>>,
                 sleeps |-> 0, out |-> NoOutcome]

\* One iteration of "for attempt in range(max_attempts)": the invocation, and
\* after a caught exception the last-attempt test, on_retry, the sleep; when
\* range is exhausted, "raise last_exception".
RetryAttempt(raw, callbackRaises) ==
    /\ retry.pc = "trying"
    /\ retry.attempt < retry.max_attempts
    /\ LET seen == Seen(raw, retry.inner)
           r1 == [retry EXCEPT !.attempts = Append(@, [raw |-> raw, seen |-> seen])]
       IN  retry' =
             IF seen.kind = "returned" \/ ~Matches(seen.value, retry.exceptions)
             THEN [r1 EXCEPT !.pc = "done", !.out = seen]
             ELSE IF LastAttempt(retry.attempt, retry.max_attempts)
             THEN [r1 EXCEPT !.pc = "done", !.out = seen]
             ELSE IF retry.on_retry = "callback" /\ callbackRaises
             THEN [r1 EXCEPT !.pc = "done", !.out = Raised("CallbackError")]
             ELSE IF retry.attempt + 1 = retry.max_attempts
             THEN [r1 EXCEPT !.pc = "done", !.out = seen, !.sleeps = @ + 1,
                             !.attempt = @ + 1]
             ELSE [r1 EXCEPT !.sleeps = @ + 1, !.attempt = @ + 1]

\* Everything beyond the call of the retrying callable.
beyondRetry ==
    <<managerVars, calls, wrapped, collectorVars, monitorVars, statusVars, apiVars,
      rateVars, lockVars, initialized, recorders, stack>>

NextRetry ==
    \/ \E n \in 1..MaxAttemptsBound : \E exceptions \in ExceptionTuples :
       \E on_retry \in {"none", "callback"} : \E inner \in Inners :
            RetryEnter(n, exceptions, on_retry, inner) /\ UNCHANGED beyondRetry
    \/ \E raw \in RawOutcomes : \E callbackRaises \in BOOLEAN :
            RetryAttempt(raw, callbackRaises) /\ UNCHANGED beyondRetry

SpecRetry == Init /\ [][NextRetry]_vars

\* The j-th invocation of the current call failed with an exception of the
\* configured tuple.
Retried(j) ==
    /\ retry.attempts[j].seen.kind = "raised"
    /\ \/ retry.attempts[j].seen.value \in retry.exceptions
       \/ "Exception" \in retry.exceptions

\* C34: a function wrapped by retry_on_failure(max_attempts = n >= 1) is
\* invoked at most n times per call; the wrapper returns the value of the
\* first attempt that succeeds without further attempts, re-raises the last
\* exception after n failing attempts, and an exception that is not an
\* instance of the configured exceptions propagates at once without a retry.
C34_Retry ==
    LET n == retry.max_attempts
        k == Len(retry.attempts)
    IN  retry.pc # "idle" =>
          /\ k <= n
          /\ \A j \in 1..(k - 1) : Retried(j)
          /\ retry.pc = "trying" => (k < n /\ \A j \in 1..k : Retried(j))
          /\ retry.pc = "done" =>
               /\ k >= 1
               /\ retry.attempts[k].seen.kind = "returned"
                  => retry.out = retry.attempts[k].seen
               /\ (Retried(k) /\ k = n) => retry.out = retry.attempts[k].seen
               /\ (retry.attempts[k].seen.kind = "raised" /\ ~Retried(k))
                  => retry.out = retry.attempts[k].seen
               /\ (Retried(k) /\ k < n)
                  => /\ retry.on_retry = "callback"
                     /\ retry.out = Raised("CallbackError")

\* C34 witness: with max_attempts = 3 the function failed three times and the
\* third exception, of another class than the second, is the one re-raised.
C34_Witness ==
    /\ retry.pc = "done"
    /\ retry.max_attempts = 3
    /\ retry.inner = "none"
    /\ Len(retry.attempts) = 3
    /\ \A j \in 1..3 : retry.attempts[j].raw.kind = "raised"
    /\ retry.attempts[2].raw # retry.attempts[3].raw
    /\ retry.out = retry.attempts[3].raw
    /\ retry.sleeps = 2

\* C34 witness: an exception outside the configured tuple ended the call at
\* the first invocation although two attempts remained.
C34_Propagated ==
    /\ retry.pc = "done"
    /\ retry.max_attempts = 3
    /\ retry.exceptions = {"ValidationError"}
    /\ Len(retry.attempts) = 1
    /\ retry.out = Raised("ProcessingError")

\* C35: with retry_on_failure stacked outside safe_execute (raise_on_error
\* false) a failing function is invoked exactly once per call and the wrapper
\* returns safe_execute's fallback_value: the retry layer sees no failure and
\* never retries.
C35_Absorbed ==
    retry.inner = "absorb" =>
        /\ Len(retry.attempts) <= 1
        /\ retry.sleeps = 0
        /\ retry.pc = "trying" => retry.attempts = <<>>
        /\ (retry.pc = "done" /\ retry.attempts[1].raw.kind = "raised")
           => /\ Len(retry.attempts) = 1
              /\ retry.out = Returned("fallback_value")

\* C35 witness: as in test_error_handling_decorators, max_attempts = 2, the
\* function raised ValidationError, ran once, and the call returned the
\* fallback value.
C35_Witness ==
    /\ retry.pc = "done"
    /\ retry.inner = "absorb"
    /\ retry.max_attempts = 2
    /\ retry.exceptions = {"Exception"}
    /\ retry.attempts = <<[raw |-> Raised("ValidationError"),
                           seen |-> Returned("fallback_value")]>>
    /\ retry.out = Returned("fallback_value")

\* ============================================ record_api_call, concurrently
\* src/src/utils/health_monitor.py, record_api_call run by several threads
\* without a lock, one statement at a time; "x += 1" is a read and a write.
\* A thread whose APIMetrics object was replaced in api_metrics after it
\* fetched it (orphan) goes on updating the object nobody else sees.
RacedServices == {"anthropic"}
RacedDurations == {2, 4}

\* The calls made so far: returned, or under way.
ApiCallsBegun ==
    Len(recorded["anthropic"]) + Len(recorded["slack"])
    + Cardinality({t \in Threads : recorders[t].pc # "idle"})

\* if service not in self.api_metrics
RecordCheck(t, service, success, response_time) ==
    /\ recorders[t].pc = "idle"
    /\ ApiCallsBegun < MaxApiCalls
    /\ recorders' = [recorders EXCEPT ![t] =
                       [pc |-> IF service \in DOMAIN api_metrics THEN "fetch" ELSE "create",
                        service |-> service, success |-> success,
                        response_time |-> response_time, value |-> 0, orphan |-> FALSE]]
    /\ UNCHANGED <<api_metrics, recorded>>

\* self.api_metrics[service] = APIMetrics(...): a new object takes the place
\* of the one stored meanwhile.
RecordCreate(t) ==
    /\ recorders[t].pc = "create"
    /\ api_metrics' = Put(api_metrics, recorders[t].service,
                          NewApiMetrics(recorders[t].service))
    /\ recorders' = [u \in Threads |->
                       IF u = t THEN [recorders[u] EXCEPT !.pc = "fetch"]
                       ELSE IF /\ recorders[u].service = recorders[t].service
                               /\ recorders[u].pc \notin {"idle", "create", "fetch"}
                            THEN [recorders[u] EXCEPT !.orphan = TRUE]
                            ELSE recorders[u]]
    /\ UNCHANGED recorded

\* metrics = self.api_metrics[service], and the read of metrics.total_calls
RecordFetch(t) ==
    /\ recorders[t].pc = "fetch"
    /\ recorders' = [recorders EXCEPT ![t].pc = "total_write",
                                      ![t].value = api_metrics[recorders[t].service].total_calls]
    /\ UNCHANGED <<api_metrics, recorded>>

\* The field of a thread's APIMetrics object is written: the object in
\* api_metrics changes unless the thread's object was replaced.
Stored(t, m) ==
    IF recorders[t].orphan THEN api_metrics
    ELSE [api_metrics EXCEPT ![recorders[t].service] = m]

\* metrics.total_calls = <value read> + 1
RecordTotalWrite(t) ==
    /\ recorders[t].pc = "total_write"
    /\ api_metrics' = Stored(t, [api_metrics[recorders[t].service] EXCEPT
                                   !.total_calls = recorders[t].value + 1])
    /\ recorders' = [recorders EXCEPT ![t].pc = "flag_read"]
    /\ UNCHANGED recorded

\* "if success": the read of metrics.successful_calls or metrics.failed_calls
RecordFlagRead(t) ==
    /\ recorders[t].pc = "flag_read"
    /\ recorders' = [recorders EXCEPT
                       ![t].pc = "flag_write",
                       ![t].value = IF recorders[t].success
                                    THEN api_metrics[recorders[t].service].successful_calls
                                    ELSE api_metrics[recorders[t].service].failed_calls]
    /\ UNCHANGED <<api_metrics, recorded>>

\* metrics.successful_calls / failed_calls = <value read> + 1
RecordFlagWrite(t) ==
    /\ recorders[t].pc = "flag_write"
    /\ api_metrics' =
         Stored(t, IF recorders[t].success
                   THEN [api_metrics[recorders[t].service] EXCEPT
                           !.successful_calls = recorders[t].value + 1]
                   ELSE [api_metrics[recorders[t].service] EXCEPT
                           !.failed_calls = recorders[t].value + 1])
    /\ recorders' = [recorders EXCEPT ![t].pc = "average"]
    /\ UNCHANGED recorded

\* metrics.avg_response_time = ...; the call returns.
RecordAverage(t) ==
    /\ recorders[t].pc = "average"
    /\ LET m == api_metrics[recorders[t].service]
       IN  api_metrics' = Stored(t, [m EXCEPT !.avg_response_time =
                                       AverageAfter(m.avg_response_time, m.total_calls,
                                                    recorders[t].response_time)])
    /\ recorded' = [recorded EXCEPT ![recorders[t].service] =
                      Append(@, recorders[t].response_time)]
    /\ recorders' = [recorders EXCEPT ![t] = NoRecording]

\* Everything beyond the API metrics and the threads that record calls.
beyondApiRace ==
    <<managerVars, calls, wrapped, collectorVars, monitorVars, statusVars, rateVars,
      lockVars, initialized, retry, stack>>

StepApiRace(t) ==
    \/ \E service \in RacedServices : \E success \in BOOLEAN :
       \E response_time \in RacedDurations :
            RecordCheck(t, service, success, response_time) /\ UNCHANGED beyondApiRace
    \/ RecordCreate(t) /\ UNCHANGED beyondApiRace
    \/ RecordFetch(t) /\ UNCHANGED beyondApiRace
    \/ RecordTotalWrite(t) /\ UNCHANGED beyondApiRace
    \/ RecordFlagRead(t) /\ UNCHANGED beyondApiRace
    \/ RecordFlagWrite(t) /\ UNCHANGED beyondApiRace
    \/ RecordAverage(t) /\ UNCHANGED beyondApiRace

NextApiRace == \E t \in Threads : StepApiRace(t)

SpecApiRace == Init /\ [][NextApiRace]_vars

\* The counters of service s account for n invocations.
Accounted(s, n) ==
    IF n = 0 THEN s \notin DOMAIN api_metrics
    ELSE /\ s \in DOMAIN api_metrics
         /\ api_metrics[s].total_calls = n
         /\ api_metrics[s].successful_calls + api_metrics[s].failed_calls = n

\* C36: for every service, after any number of record_api_call invocations,
\* total_calls = successful_calls + failed_calls = the number of invocations
\* made for the service, also when several threads record calls for the same
\* service at the same time.
C36_Counts ==
    (\A t \in Threads : recorders[t].pc = "idle")
    => \A s \in ApiServices : Accounted(s, Len(recorded[s]))

\* The same when the calls are made one after the other (SpecApi).
C36_OneByOne == \A s \in ApiServices : Accounted(s, Len(recorded[s]))

\* ------------------------------------------------------- the recovery window
\* C37: a short-circuited call (ServiceUnavailableError raised by the breaker)
\* leaves the breaker's status, failure_count and last_failure_time unchanged,
\* so refused calls never extend the recovery window: last_failure_time is
\* written only by a failure of the operation or by the administrative trip
\* (and starts from 0 in a new breaker).
C37_Step ==
    /\ (last'.op = "call_service" /\ ShortCircuited) => services' = services
    /\ \A n \in DOMAIN services :
         services'[n].last_failure_time # services[n].last_failure_time
         => \/ /\ last'.op = "call_service"
               /\ last'.name = n
               /\ last'.opCalls = 1
               /\ last'.brk.kind = "raised"
               /\ services'[n].last_failure_time = now
            \/ /\ last'.op = "mark_service_unavailable"
               /\ last'.name = n
               /\ services'[n].last_failure_time = now
            \/ /\ last'.op = "register_service"
               /\ last'.name = n
               /\ services'[n] = NewCircuitBreaker(services'[n].config)

C37_RefusalKeepsWindow == [][C37_Step]_vars

\* C37 witness: a call was refused a second after the failure that tripped
\* the breaker or later; the breaker is FAILED with its count at the threshold
\* or above and the time of that failure.
C37_Witness ==
    /\ last.op = "call_service"
    /\ last.opCalls = 0
    /\ last.brk = ServiceUnavailable("llm")
    /\ services["llm"].status = FAILED
    /\ services["llm"].failure_count >= services["llm"].config.max_failures
    /\ services["llm"].last_failure_time > 0
    /\ services["llm"].last_failure_time < now

\* ============================================================ two services
\* The manager with two services, every operation that writes run as one
\* step: the two configs callers register, a fallback for one of the
\* services, and operations called with one argument tuple.
PairConfigs ==
    {ServiceConfig("llm", 2, DefaultFailureWindow, 1, TRUE),
     ServiceConfig("db", 2, DefaultFailureWindow, 2, FALSE)}

PairOperations ==
    {op \in Operations : op.args = "args1" /\ op.raises \in {"none", "OperationError"}}

NextPair ==
    \/ Tick /\ UNCHANGED beyondManager
    \/ \E c \in PairConfigs : RegisterService(c) /\ UNCHANGED beyondManager
    \/ RegisterFallback("llm", "F") /\ UNCHANGED beyondManager
    \/ \E n \in Names : MarkServiceUnavailable(n) /\ UNCHANGED beyondManager
    \/ \E n \in Names : \E op \in PairOperations : \E fbRaises \in BOOLEAN :
            CallService(n, op, fbRaises) /\ UNCHANGED beyondManager

SpecPair == Init /\ [][NextPair]_vars

\* ------------------------------------------------------- status queries
\* GracefulDegradation.get_all_services_status
GetAllServicesStatus ==
    /\ last' = Result("get_all_services_status", "",
                      Returned([n \in DOMAIN services |-> StatusOf(n)]), NoOutcome,
                      0, 0, "none")
    /\ UNCHANGED <<services, fallback_handlers, now, fails>>

\* The manager with every operation and every query run as one step.
NextQuery ==
    \/ Step(Driven)
    \/ GetAllServicesStatus /\ UNCHANGED beyondManager
    \/ CanOperateInDegradedMode /\ UNCHANGED beyondManager

SpecQuery == Init /\ [][NextQuery]_vars

\* The operations that only ask for a status.
Queries ==
    {"is_service_available", "get_service_status", "get_all_services_status",
     "can_operate_in_degraded_mode"}

\* C38: a breaker's state changes only through calls on it,
\* mark_service_unavailable or re-registration; status queries
\* (is_service_available on a registered name, get_service_status,
\* get_all_services_status, can_operate_in_degraded_mode) never modify it, so
\* a FAILED breaker stays FAILED and is reported unavailable however long ago
\* recovery_time elapsed, as long as no call is attempted.
C38_Step ==
    /\ \A n \in DOMAIN services :
         services'[n] # services[n]
         => /\ last'.op \in {"call_service", "mark_service_unavailable", "register_service"}
            /\ last'.name = n
    /\ (last'.op \in Queries /\ last'.name \in DOMAIN services \cup {""})
       => services' = services
    /\ \A n \in DOMAIN services :
         (services[n].status = FAILED /\ last'.name = n)
         => /\ last'.op = "is_service_available" => last'.out = Returned([bool |-> FALSE])
            /\ last'.op = "get_service_status" => last'.out.value.status = FAILED
    /\ \A n \in DOMAIN services :
         (services[n].status = FAILED /\ last'.op = "get_all_services_status")
         => last'.out.value[n].status = FAILED

C38_QueriesReadOnly == [][C38_Step]_vars

\* C38 witness: is_service_available has just answered False for a breaker
\* that is FAILED although more than its recovery_time has passed since the
\* failure.
C38_Witness ==
    /\ last.op = "is_service_available"
    /\ last.name = "llm"
    /\ last.out = Returned([bool |-> FALSE])
    /\ services["llm"].status = FAILED
    /\ services["llm"].last_failure_time > 0
    /\ now - services["llm"].last_failure_time > services["llm"].config.recovery_time

\* C40: breakers are independent: a call_service or mark_service_unavailable
\* on service A (success, failure, short-circuit or fallback) leaves the
\* status, failure_count and last_failure_time of every other registered
\* service B unchanged, and leaves the fallback registry unchanged.
C40_Step ==
    \A a \in Names :
        (last'.op \in {"call_service", "mark_service_unavailable"} /\ last'.name = a)
        => /\ \A b \in DOMAIN services \ {a} :
                /\ b \in DOMAIN services'
                /\ services'[b].status = services[b].status
                /\ services'[b].failure_count = services[b].failure_count
                /\ services'[b].last_failure_time = services[b].last_failure_time
           /\ fallback_handlers' = fallback_handlers

C40_Independent == [][C40_Step]_vars

\* C40 witness: a call on "llm" failed and was answered by the fallback while
\* "db" is FAILED from failures of its own, counted at another time.
C40_Witness ==
    /\ last.op = "call_service"
    /\ last.name = "llm"
    /\ last.brk.kind = "raised"
    /\ last.fbCalls = 1
    /\ DOMAIN services = {"llm", "db"}
    /\ services["llm"].status = DEGRADED
    /\ services["db"].status = FAILED
    /\ services["db"].failure_count = 2
    /\ services["db"].last_failure_time < services["llm"].last_failure_time
    /\ DOMAIN fallback_handlers = {"llm"}

\* ==================================================== locks and user code
\* src/src/utils/graceful_degradation.py with every "with self.lock:" split
\* into the acquisition and the block (body and release), and the operations
\* and fallbacks (user code) free to call into the manager again on the same
\* thread.  A frame is one manager operation a thread is inside; gen = 0
\* means the frame works on the breaker now registered under its name, another
\* gen on a breaker that register_service has replaced since (an object with
\* its own Lock).
UserPcs == {"direct", "running", "fallback"}
BreakerWaitPcs == {"gate_wait", "success_wait", "failure_wait"}
BreakerLockedPcs == {"gate", "success", "failure"}
ManagerWaitPcs == {"register_wait", "fallback_wait", "mark_register_wait", "mark_wait"}
ManagerLockedPcs == {"register", "fallback_store", "mark_register", "mark"}

\* The pc a thread is at once it holds the lock it waited for.
Locked(pc) ==
    CASE pc = "gate_wait" -> "gate"
      [] pc = "success_wait" -> "success"
      [] pc = "failure_wait" -> "failure"
      [] pc = "register_wait" -> "register"
      [] pc = "fallback_wait" -> "fallback_store"
      [] pc = "mark_register_wait" -> "mark_register"
      [] pc = "mark_wait" -> "mark"

ManagerOperations ==
    {"call_service", "register_service", "register_fallback", "mark_service_unavailable"}

Top(t) == stack[t][Len(stack[t])]
Below(t) == SubSeq(stack[t], 1, Len(stack[t]) - 1)
Frames(t) == {stack[t][i] : i \in 1..Len(stack[t])}

\* The first statement of each operation, up to its first lock acquisition or
\* user code: the membership tests of call_service and
\* mark_service_unavailable, and the lookup of the breaker.
Entered(op, config) ==
    [op |-> op, name |-> config.name, config |-> config, gen |-> 0,
     pc |-> CASE op = "call_service" ->
                    IF config.name \in DOMAIN services THEN "gate_wait" ELSE "direct"
              [] op = "register_service" -> "register_wait"
              [] op = "register_fallback" -> "fallback_wait"
              [] op = "mark_service_unavailable" ->
                    IF config.name \in DOMAIN services THEN "mark_wait"
                    ELSE "mark_register_wait"]

\* The manager operations the threads are inside.
RECURSIVE FramesOf(_)
FramesOf(T) ==
    IF T = {} THEN 0
    ELSE LET t == CHOOSE x \in T : TRUE IN Len(stack[t]) + FramesOf(T \ {t})

InFlight == FramesOf(Threads)

\* A thread calls a manager operation: from outside, or from an operation or
\* fallback the manager is running on that thread.
Begin(t, op, config) ==
    /\ InFlight < MaxFrames
    /\ stack[t] # <<>> => Top(t).pc \in UserPcs
    /\ stack' = [stack EXCEPT ![t] = Append(@, Entered(op, config))]
    /\ UNCHANGED <<services, fallback_handlers, lock, breaker_lock>>

\* Thread u holds the Lock of the replaced breaker (name, gen).
HoldsReplaced(u, name, gen) ==
    \E f \in Frames(u) : f.name = name /\ f.gen = gen /\ f.pc \in BreakerLockedPcs

\* The Lock of the breaker a frame works on can be acquired.
BreakerFree(f) ==
    IF f.gen = 0 THEN breaker_lock[f.name] = "free"
    ELSE \A u \in Threads : ~HoldsReplaced(u, f.name, f.gen)

\* "with self.lock:" of CircuitBreaker.call: the acquisition.
AcquireBreaker(t) ==
    /\ stack[t] # <<>>
    /\ Top(t).pc \in BreakerWaitPcs
    /\ BreakerFree(Top(t))
    /\ stack' = [stack EXCEPT ![t] = Append(Below(t), [Top(t) EXCEPT !.pc = Locked(@)])]
    /\ breaker_lock' = IF Top(t).gen = 0 THEN [breaker_lock EXCEPT ![Top(t).name] = t]
                       ELSE breaker_lock
    /\ UNCHANGED <<services, fallback_handlers, lock>>

\* "with self.lock:" of the manager: the acquisition.
AcquireManager(t) ==
    /\ stack[t] # <<>>
    /\ Top(t).pc \in ManagerWaitPcs
    /\ lock = "free"
    /\ stack' = [stack EXCEPT ![t] = Append(Below(t), [Top(t) EXCEPT !.pc = Locked(@)])]
    /\ lock' = t
    /\ UNCHANGED <<services, fallback_handlers, breaker_lock>>

\* Mutant: leaving a "with" block keeps the Lock.
Released_Kept(t) == t

\* The holder of a Lock after its "with" block.
Released(t) == "free"

\* The breaker Lock after a block of CircuitBreaker.call that thread t ran on
\* the breaker of frame f.
AfterBlock(t, f) ==
    IF f.gen = 0 THEN [breaker_lock EXCEPT ![f.name] = Released(t)] ELSE breaker_lock

\* The thread's stack with its innermost frame at pc, or returned (pc "").
Moved(t, pc) ==
    IF pc = "" THEN [stack EXCEPT ![t] = Below(t)]
    ELSE [stack EXCEPT ![t] = Append(Below(t), [Top(t) EXCEPT !.pc = pc])]

\* After ServiceUnavailableError of the breaker: the fallback if one is
\* registered, else the exception leaves call_service.
AfterRefusal(name) == IF name \in DOMAIN fallback_handlers THEN "fallback" ELSE ""

\* After an exception of the operation: the fallback if one is registered and
\* the config enables it, else the exception leaves call_service.
AfterFailure(f) ==
    IF f.name \in DOMAIN fallback_handlers /\ f.config.fallback_enabled THEN "fallback"
    ELSE ""

\* The first block of CircuitBreaker.call.  The state of a replaced breaker is
\* not kept: it admits or refuses.
Gate(t, refusesReplaced) ==
    /\ stack[t] # <<>>
    /\ Top(t).pc = "gate"
    /\ LET f == Top(t)
           refused == IF f.gen = 0 THEN Refused(services[f.name], now)
                      ELSE refusesReplaced
       IN  /\ services' = IF f.gen = 0 /\ ~refused
                          THEN [services EXCEPT ![f.name] = Admitted(@)]
                          ELSE services
           /\ stack' = Moved(t, IF refused THEN AfterRefusal(f.name) ELSE "running")
           /\ breaker_lock' = AfterBlock(t, f)
    /\ UNCHANGED <<fallback_handlers, lock>>

\* User code ends: the operation returns or raises, a fallback or a function
\* called directly hands its outcome to the caller.
EndUser(t, raises) ==
    /\ stack[t] # <<>>
    /\ Top(t).pc \in UserPcs
    /\ stack' = Moved(t, IF Top(t).pc = "running"
                         THEN (IF raises THEN "failure_wait" ELSE "success_wait")
                         ELSE "")
    /\ UNCHANGED <<services, fallback_handlers, lock, breaker_lock>>

\* The success block of CircuitBreaker.call.
Success(t) ==
    /\ stack[t] # <<>>
    /\ Top(t).pc = "success"
    /\ services' = IF Top(t).gen = 0 THEN [services EXCEPT ![Top(t).name] = OnSuccess(@)]
                   ELSE services
    /\ stack' = Moved(t, "")
    /\ breaker_lock' = AfterBlock(t, Top(t))
    /\ UNCHANGED <<fallback_handlers, lock>>

\* The failure block of CircuitBreaker.call, and the except clause of
\* call_service that follows it.
Failure(t) ==
    /\ stack[t] # <<>>
    /\ Top(t).pc = "failure"
    /\ services' = IF Top(t).gen = 0 THEN [services EXCEPT ![Top(t).name] = OnFailure(@, now)]
                   ELSE services
    /\ stack' = Moved(t, AfterFailure(Top(t)))
    /\ breaker_lock' = AfterBlock(t, Top(t))
    /\ UNCHANGED <<fallback_handlers, lock>>

\* A gen no frame carries.
FreshGen ==
    CHOOSE g \in 1..(MaxFrames + 1) :
        \A u \in Threads : \A f \in Frames(u) : f.gen # g

\* self.services[config.name] = CircuitBreaker(config): the frames on the
\* breaker registered so far keep working on that object.
Replaced(s, name) ==
    [u \in Threads |->
        [i \in 1..Len(s[u]) |->
            IF s[u][i].op = "call_service" /\ s[u][i].name = name /\ s[u][i].gen = 0
               /\ s[u][i].pc # "direct"
            THEN [s[u][i] EXCEPT !.gen = FreshGen]
            ELSE s[u][i]]]

\* The block of register_service, run by register_service ("register") or by
\* mark_service_unavailable for an unknown name ("mark_register").
StoreBreaker(t) ==
    /\ stack[t] # <<>>
    /\ Top(t).pc \in {"register", "mark_register"}
    /\ services' = Put(services, Top(t).name, NewCircuitBreaker(Top(t).config))
    /\ stack' = Replaced(Moved(t, IF Top(t).pc = "register" THEN "" ELSE "mark_wait"),
                         Top(t).name)
    /\ breaker_lock' = [breaker_lock EXCEPT ![Top(t).name] = "free"]
    /\ lock' = Released(t)
    /\ UNCHANGED fallback_handlers

\* The block of register_fallback.
StoreFallback(t) ==
    /\ stack[t] # <<>>
    /\ Top(t).pc = "fallback_store"
    /\ fallback_handlers' = Put(fallback_handlers, Top(t).name, "F")
    /\ stack' = Moved(t, "")
    /\ lock' = Released(t)
    /\ UNCHANGED <<services, breaker_lock>>

\* The block of mark_service_unavailable.
Mark(t) ==
    /\ stack[t] # <<>>
    /\ Top(t).pc = "mark"
    /\ services' = [services EXCEPT ![Top(t).name] = Tripped(@, now)]
    /\ stack' = Moved(t, "")
    /\ lock' = Released(t)
    /\ UNCHANGED <<fallback_handlers, breaker_lock>>

\* Everything beyond the registry, the locks and the threads' stacks.
beyondLocks ==
    <<last, fails, calls, marked, wrapped, collectorVars, monitorVars, statusVars,
      apiVars, rateVars, initialized, retry, recorders>>

\* The configs the threads register, and the default config
\* mark_service_unavailable builds.
LockConfigs == {ServiceConfig("llm", 1, DefaultFailureWindow, 1, TRUE)}

StepLocks(t) ==
    \/ \E op \in ManagerOperations \ {"mark_service_unavailable"} : \E c \in LockConfigs :
            Begin(t, op, c) /\ UNCHANGED <<now, beyondLocks>>
    \/ \E c \in LockConfigs :
            Begin(t, "mark_service_unavailable", DefaultConfig(c.name))
            /\ UNCHANGED <<now, beyondLocks>>
    \/ AcquireBreaker(t) /\ UNCHANGED <<now, beyondLocks>>
    \/ AcquireManager(t) /\ UNCHANGED <<now, beyondLocks>>
    \/ \E refusesReplaced \in BOOLEAN : Gate(t, refusesReplaced) /\ UNCHANGED <<now, beyondLocks>>
    \/ \E raises \in BOOLEAN : EndUser(t, raises) /\ UNCHANGED <<now, beyondLocks>>
    \/ Success(t) /\ UNCHANGED <<now, beyondLocks>>
    \/ Failure(t) /\ UNCHANGED <<now, beyondLocks>>
    \/ StoreBreaker(t) /\ UNCHANGED <<now, beyondLocks>>
    \/ StoreFallback(t) /\ UNCHANGED <<now, beyondLocks>>
    \/ Mark(t) /\ UNCHANGED <<now, beyondLocks>>

\* The clock stands still: whether a tripped breaker refuses or admits is
\* then settled by the order of the calls and the registrations.
NextLocks == \E t \in Threads : StepLocks(t)

SpecLocks == Init /\ [][NextLocks]_vars

\* The locks thread t holds: the manager's, the registered breakers', the
\* replaced breakers'.
HeldLocks(t) ==
    {<<"manager", "", 0>> : x \in {1} \cap (IF lock = t THEN {1} ELSE {})}
    \cup {<<"breaker", n, 0>> : n \in {k \in Names : breaker_lock[k] = t}}
    \cup {<<"breaker", f.name, f.gen>> :
            f \in {g \in Frames(t) : g.gen # 0 /\ g.pc \in BreakerLockedPcs}}

\* The lock the block a frame is in (or waits for) runs under.
LockOf(f) ==
    IF f.pc \in ManagerWaitPcs \cup ManagerLockedPcs THEN <<"manager", "", 0>>
    ELSE <<"breaker", f.name, f.gen>>

\* The threads that hold a lock.
Holders(l) == {u \in Threads : l \in HeldLocks(u)}

\* C39 (1): no lock is held while user code runs.  A thread holds a lock only
\* inside the "with" block of its innermost operation, and then that lock
\* alone; every operation below the innermost one is in user code (the
\* operation, a fallback, a function called directly), and a thread outside
\* the manager holds nothing.
C39_UserCodeLockFree ==
    \A t \in Threads :
        /\ \A i \in 1..(Len(stack[t]) - 1) : stack[t][i].pc \in UserPcs
        /\ IF stack[t] # <<>> /\ Top(t).pc \in BreakerLockedPcs \cup ManagerLockedPcs
           THEN HeldLocks(t) = {LockOf(Top(t))}
           ELSE HeldLocks(t) = {}

\* C39 (2): no lock is acquired re-entrantly and nested calls cannot deadlock.
\* A thread that waits for a lock does not hold it, and whoever holds it is
\* inside the "with" block, which ends without waiting for anything; so a slow
\* operation (a thread at "running") never keeps a caller at the gate.
C39_NoDeadlock ==
    \A t \in Threads :
        (stack[t] # <<>> /\ Top(t).pc \in BreakerWaitPcs \cup ManagerWaitPcs) =>
            /\ t \notin Holders(LockOf(Top(t)))
            /\ \A u \in Holders(LockOf(Top(t))) :
                    /\ Top(u).pc \in BreakerLockedPcs \cup ManagerLockedPcs
                    /\ LockOf(Top(u)) = LockOf(Top(t))
                    /\ ENABLED (Success(u) \/ Failure(u) \/ Gate(u, FALSE)
                                \/ StoreBreaker(u) \/ StoreFallback(u) \/ Mark(u))

\* C39: both parts.
C39_LocksAroundUserCode == C39_UserCodeLockFree /\ C39_NoDeadlock

\* The operation of thread t1 is running and has called call_service for the
\* same service: the nested call is inside the first block of the same breaker
\* object, and thread t2 waits at the gate of that breaker.
C39_Witness ==
    /\ Len(stack["t1"]) = 2
    /\ stack["t1"][1].op = "call_service" /\ stack["t1"][1].pc = "running"
    /\ Top("t1").name = stack["t1"][1].name
    /\ Top("t1").op = "call_service" /\ Top("t1").pc = "gate"
    /\ Top("t1").gen = stack["t1"][1].gen
    /\ stack["t2"] # <<>> /\ Top("t2").pc = "gate_wait" /\ LockOf(Top("t2")) = LockOf(Top("t1"))

====
